---- MODULE Spec2Model ----
(***************************************************************************)
(* Indexing orchestrator (backend/src/services/indexer_service.py) and the *)
(* conversation store of the RAG service (rag_service.py), modelled as a   *)
(* state machine.  The service runs on one asyncio event loop: a coroutine *)
(* runs without interleaving until it reaches `await asyncio.sleep`, which *)
(* is the only real suspension point of _index_repository_async.  The      *)
(* variable `running` holds the coroutine that owns the loop; the public   *)
(* operations are enabled only while no coroutine owns it.                 *)
(***************************************************************************)
EXTENDS Integers, Sequences, FiniteSets, TLC

\* ------------------------------------------------------------------ bounds
MaxTasks == 2        \* start_indexing calls that register a task
MaxFiles == 2        \* length of the list returned by _discover_files
MaxEntries == 3      \* length of a list handed to _save_index_metadata
MaxStamp == 3        \* distinct indexed_at values of the entries of a list
MaxCached == 2       \* answers cached before the chat client stops asking
MaxEvictions == 2    \* cache misses the chat client causes on a full cache
MaxSnapshot == 4     \* files listed by the snapshot the retrieval reads
MaxChars == 1025     \* characters of the longest plain text file

\* ---------------------------------------------------------- value encoding
\* Optional[...] values: None is the empty tuple, a present value x is <<x>>.
None == <<>>
Some(x) == <<x>>
\* None for string / timestamp typed fields.
NoneStr == "None"
\* A timestamp that has been taken (datetime.utcnow()).
SetTime == "utcnow"

\* IndexingStatus members.
PENDING == "pending"
RUNNING == "running"
COMPLETED == "completed"
FAILED == "failed"
CANCELLED == "cancelled"

\* A percentage is the rational num/den (the code computes a float).
Pct(n) == [num |-> n, den |-> 1]
PctLeq(a, b) == a.num * b.den <= b.num * a.den
PctEq(a, b) == a.num * b.den = b.num * a.den

\* A URL is the sequence of its "/"-separated segments, a segment the
\* sequence of its tokens; ".git" is a token of its own.
UrlPlain == << <<"owner">>, <<"web-rag-service">> >>
UrlGit == << <<"owner">>, <<"web-rag-service", ".git">> >>
Urls == {UrlPlain, UrlGit}

\* repo_url.split("/")[-1].replace(".git", "")
RepoName(repo_url) ==
    SelectSeq(repo_url[Len(repo_url)], LAMBDA tok : tok # ".git")

\* str(uuid.uuid4()) of the n-th allocation, and the synthetic task id.
Uuid(n) == <<"uuid4", n>>
ALREADY_INDEXED == <<"already-indexed", 0>>

\* ------------------------------------------------------- the file system
\* Files a working copy can contain: on-disk size, whether the bytes decode
\* as UTF-8, number of characters and of encoded bytes, and the suffix.
Paths == {"config.py", "big.bin"}
\* The same with a file whose bytes are not UTF-8 and a file whose read
\* raises (PermissionError) although stat succeeds.
AllPaths == Paths \cup {"logo.png", "locked.py"}
\* Small text files of a working copy that the retrieval ranks; notes.rst
\* is there because the request named "*.rst" as an include pattern.
DocPaths == {"config.py", "main.py", "utils.py", "app.py", "readme.md",
             "notes.rst"}
\* Plain ASCII text files, each named after its length: the lengths up to
\* MaxChars that are a multiple of 16 or next to one.
TextLengths == {n \in 0..MaxChars : n % 16 \in {0, 1, 15}}
TextFile(n) == ToString(n) \o ".txt"
TextFiles == {TextFile(n) : n \in TextLengths}
CharsOf(p) == CHOOSE n \in TextLengths : TextFile(n) = p
RepoFile(p) ==
    CASE p = "config.py" ->
           [st_size |-> 14, decodable |-> TRUE, readable |-> TRUE,
            chars |-> 13, bytes |-> 14, suffix |-> ".py"]
      [] p = "big.bin" ->
           [st_size |-> 2 * 1024 * 1024, decodable |-> TRUE,
            readable |-> TRUE, chars |-> 2 * 1024 * 1024,
            bytes |-> 2 * 1024 * 1024, suffix |-> ".bin"]
      [] p = "logo.png" ->
           [st_size |-> 8, decodable |-> FALSE, readable |-> TRUE,
            chars |-> 0, bytes |-> 8, suffix |-> ".png"]
      [] p = "locked.py" ->
           [st_size |-> 14, decodable |-> TRUE, readable |-> FALSE,
            chars |-> 13, bytes |-> 14, suffix |-> ".py"]
      [] p \in {"main.py", "utils.py", "app.py"} ->
           [st_size |-> 1, decodable |-> TRUE, readable |-> TRUE,
            chars |-> 1, bytes |-> 1, suffix |-> ".py"]
      [] p = "readme.md" ->
           [st_size |-> 1, decodable |-> TRUE, readable |-> TRUE,
            chars |-> 1, bytes |-> 1, suffix |-> ".md"]
      [] p = "notes.rst" ->
           [st_size |-> 1, decodable |-> TRUE, readable |-> TRUE,
            chars |-> 1, bytes |-> 1, suffix |-> ".rst"]
      [] p \in TextFiles ->
           [st_size |-> CharsOf(p), decodable |-> TRUE, readable |-> TRUE,
            chars |-> CharsOf(p), bytes |-> CharsOf(p), suffix |-> ".txt"]

\* Files that may already lie in storage/indices when the service is built
\* (the service itself only reads and deletes them), with their sizes.
IndexFiles == {"test.faiss"}
IndexFileSize(f) == IF f = "test.faiss" THEN 9 ELSE 0

\* Lists _discover_files can return: any list of paths, duplicates included
\* (overlapping include patterns list a file once per pattern).
RECURSIVE SeqsUpTo(_, _)
SeqsUpTo(S, n) ==
    IF n = 0 THEN {<<>>}
    ELSE LET shorter == SeqsUpTo(S, n - 1)
         IN  shorter \cup {Append(s, x) : s \in shorter, x \in S}
FileLists == SeqsUpTo(Paths, MaxFiles)
AllFileLists == SeqsUpTo(AllPaths, MaxFiles)

RECURSIVE SumSeq(_)
SumSeq(s) == IF s = <<>> THEN 0 ELSE Head(s) + SumSeq(Tail(s))

\* Total st_size of a set of files of storage/indices.
RECURSIVE SizeOfIndexFiles(_)
SizeOfIndexFiles(S) ==
    IF S = {} THEN 0
    ELSE LET f == CHOOSE g \in S : TRUE
         IN  IndexFileSize(f) + SizeOfIndexFiles(S \ {f})

\* The files of a directory listing that are left when only those at the
\* positions `kept` survive; their order is unchanged.
RECURSIVE KeepFiles(_, _)
KeepFiles(dir, kept) ==
    IF dir = <<>> THEN <<>>
    ELSE LET rest == KeepFiles(Tail(dir), {k - 1 : k \in kept \ {1}})
         IN  IF 1 \in kept THEN <<Head(dir)>> \o rest ELSE rest

\* ------------------------------------------------------------------ state
VARIABLES
    active_tasks,    \* IndexerService.active_tasks: task id -> task dict
    current_task,    \* IndexerService.current_task
    coro,            \* locals of each _index_repository_async coroutine
    running,         \* the coroutine that owns the event loop, or None
    metadata_dir,    \* storage/metadata: files, oldest modification first
    indices_dir,     \* storage/indices: set of file names
    repos_dir,       \* storage/repositories: names of the working copies
    conversations,   \* RAGService.conversations: id -> list of messages
    response_cache,  \* RAGService.response_cache, in insertion order
    is_initialized,  \* RAGService.is_initialized (the model is loaded)
    uuid_count,      \* number of uuid.uuid4() values drawn so far
    published,       \* calls of send_indexing_update made so far, in order
    model_calls,     \* calls of self.model (the engine) made so far, in order
    ret              \* what the last public operation returned

vars == <<active_tasks, current_task, coro, running, metadata_dir,
          indices_dir, repos_dir, conversations, response_cache,
          is_initialized, uuid_count, published, model_calls, ret>>

indexerVars == <<active_tasks, current_task, coro, running, metadata_dir,
                 indices_dir, repos_dir>>
ragVars == <<conversations, response_cache, is_initialized>>

Idle == running = None

\* ------------------------------------------------- IndexerService helpers
\* _get_status_message
_get_status_message(status) ==
    CASE status = PENDING -> "Task is queued and waiting to start"
      [] status = RUNNING -> "Indexing in progress"
      [] status = COMPLETED -> "Indexing completed successfully"
      [] status = FAILED -> "Indexing failed"
      [] status = CANCELLED -> "Indexing was cancelled"
      [] OTHER -> "Unknown status"

\* _detect_language (the suffixes of Paths; any other suffix maps to None)
_detect_language(extension) ==
    CASE extension = ".py" -> "python"
      [] extension = ".md" -> "markdown"
      [] OTHER -> NoneStr

\* index_file that takes the bytes of a file as they are when they do not
\* decode (no UnicodeDecodeError branch).
index_file_KeepsUndecodable(p, present, now) ==
    IF ~present THEN None
    ELSE LET f == RepoFile(p) IN
         IF f.st_size > 1024 * 1024 THEN None
         ELSE IF ~f.readable THEN None
         ELSE Some([file_path |-> p,
                    content_hash |-> <<"sha256", p>>,
                    size |-> f.bytes,
                    language |-> _detect_language(f.suffix),
                    chunk_count |-> (f.chars \div 512) + 1,
                    indexed_at |-> now])

\* index_file: the FileIndexEntry of a file, or None when it is skipped.
\* `present` says whether the working copy still exists (stat raises
\* otherwise and the blanket except returns None); `now` is utcnow().
index_file(p, present, now) ==
    IF ~present THEN None
    ELSE LET f == RepoFile(p) IN
         IF f.st_size > 1024 * 1024 THEN None
         ELSE IF ~f.readable THEN None
         ELSE IF ~f.decodable THEN None
         ELSE Some([file_path |-> p,
                    content_hash |-> <<"sha256", p>>,
                    size |-> f.bytes,
                    language |-> _detect_language(f.suffix),
                    chunk_count |-> (f.chars \div 512) + 1,
                    indexed_at |-> now])

\* _update_progress applied to a task dict.
_update_progress(task, message, files_processed, total_files, percentage) ==
    [task EXCEPT !.message = message,
                 !.progress.files_processed = files_processed,
                 !.progress.total_files = total_files,
                 !.progress.percentage = percentage]

\* The deduplication pass of _save_index_metadata: one entry per file_path,
\* in first-occurrence order, a later duplicate replacing the kept entry
\* only when its indexed_at is strictly greater.
RECURSIVE UniqueFiles(_, _)
UniqueFiles(processed_files, acc) ==
    IF processed_files = <<>> THEN acc
    ELSE LET e == Head(processed_files)
             hit == {k \in 1..Len(acc) : acc[k].file_path = e.file_path}
         IN  IF hit = {} THEN UniqueFiles(Tail(processed_files), Append(acc, e))
             ELSE LET k == CHOOSE j \in hit : TRUE
                  IN  IF e.indexed_at > acc[k].indexed_at
                      THEN UniqueFiles(Tail(processed_files),
                                       [acc EXCEPT ![k] = e])
                      ELSE UniqueFiles(Tail(processed_files), acc)

\* The metadata dict with the first entry of every file_path kept, whatever
\* the indexed_at of the later ones.
IndexMetadata_KeepsFirst(task_id, processed_files, repo_url) ==
    LET firsts == {k \in 1..Len(processed_files) :
                     \A j \in 1..(k - 1) :
                        processed_files[j].file_path
                          # processed_files[k].file_path}
        deduplicated_files == KeepFiles(processed_files, firsts)
    IN  [task_id |-> task_id,
         repository_url |-> repo_url,
         repository_name |-> RepoName(repo_url),
         file_count |-> Len(deduplicated_files),
         files |-> deduplicated_files,
         indexed_at |-> SetTime,
         created_at |-> SetTime]

\* The metadata dict _save_index_metadata serialises.
IndexMetadata(task_id, processed_files, repo_url) ==
    LET deduplicated_files == UniqueFiles(processed_files, <<>>)
    IN  [task_id |-> task_id,
         repository_url |-> repo_url,
         repository_name |-> RepoName(repo_url),
         file_count |-> Len(deduplicated_files),
         files |-> deduplicated_files,
         indexed_at |-> SetTime,
         created_at |-> SetTime]

\* A file of storage/metadata: f"{task_id}.json" with its parsed content,
\* or a file that json.load rejects (a write that stopped part-way).
MetadataFile(task_id, metadata) ==
    [name |-> task_id, parseable |-> TRUE, metadata |-> Some(metadata)]
PartialFile(task_id) ==
    [name |-> task_id, parseable |-> FALSE, metadata |-> None]

\* A FileIndexEntry for path p stamped `now`, as a caller of
\* _save_index_metadata can build it.
FileIndexEntry(p, now) ==
    [file_path |-> p,
     content_hash |-> <<"sha256", p>>,
     size |-> RepoFile(p).bytes,
     language |-> _detect_language(RepoFile(p).suffix),
     chunk_count |-> (RepoFile(p).chars \div 512) + 1,
     indexed_at |-> now]

\* Lists of entries _save_index_metadata can be handed: any order, paths
\* repeated with the same or different timestamps.
EntryLists ==
    SeqsUpTo({FileIndexEntry(p, now) : p \in Paths, now \in 1..MaxStamp},
             MaxEntries)

\* open(metadata_file, "w") followed by a complete write: a file of that
\* name is replaced, and the written file is the most recently modified.
WriteFile(dir, file) ==
    Append(SelectSeq(dir, LAMBDA f : f.name # file.name), file)

\* _check_existing_repository comparing the derived repository name where
\* the code compares the repository URL.
_check_existing_repository_ByName(repository_url) ==
    {[repository_name |-> metadata_dir[k].metadata[1].repository_name,
      indexed_at |-> metadata_dir[k].metadata[1].indexed_at,
      created_at |-> metadata_dir[k].metadata[1].created_at,
      file_count |-> metadata_dir[k].metadata[1].file_count] :
        k \in {j \in 1..Len(metadata_dir) :
                  /\ metadata_dir[j].parseable
                  /\ metadata_dir[j].metadata[1].repository_name
                        = RepoName(repository_url)}}

\* _check_existing_repository: the summaries of the parseable metadata
\* files whose repository_url equals the argument.  The code returns the
\* first one in glob order, which the file system decides.
_check_existing_repository(repository_url) ==
    {[repository_name |-> metadata_dir[k].metadata[1].repository_name,
      indexed_at |-> metadata_dir[k].metadata[1].indexed_at,
      created_at |-> metadata_dir[k].metadata[1].created_at,
      file_count |-> metadata_dir[k].metadata[1].file_count] :
        k \in {j \in 1..Len(metadata_dir) :
                  /\ metadata_dir[j].parseable
                  /\ metadata_dir[j].metadata[1].repository_url
                        = repository_url}}

\* The task dict start_indexing registers.
NewTask(task_id, repository_url) ==
    [task_id |-> task_id,
     status |-> PENDING,
     repository_url |-> repository_url,
     branch |-> "main",
     created_at |-> SetTime,
     started_at |-> NoneStr,
     completed_at |-> NoneStr,
     progress |-> [current_file |-> NoneStr,
                   files_processed |-> 0,
                   total_files |-> 0,
                   percentage |-> Pct(0),
                   bytes_processed |-> 0,
                   elapsed_time |-> NoneStr,
                   estimated_remaining |-> NoneStr],
     message |-> NoneStr,
     error |-> NoneStr,
     result |-> None]

\* The locals of a coroutine that asyncio.create_task has scheduled.
NewCoro ==
    [pc |-> "start", i |-> 0, files_to_process |-> <<>>,
     processed_files |-> <<>>, processed_file_paths |-> {},
     total_bytes |-> 0, exc |-> NoneStr]

\* The coroutine has returned: its frame is gone, `exc` remembers the
\* exception the except branch handled, if any.
Finished(e) == [NewCoro EXCEPT !.pc = "done", !.exc = e]

\* ---------------------------------------------------- public operations
\* The short-circuit branch that also registers a finished task under the
\* synthetic id.
StartAlreadyIndexed_Registers(u) ==
    /\ Idle
    /\ \E existing_repo \in _check_existing_repository(u) :
          ret' = [op |-> "start_indexing",
                  repository_url |-> u,
                  task_id |-> ALREADY_INDEXED,
                  status |-> COMPLETED,
                  message |-> <<"already available",
                                existing_repo.repository_name>>,
                  estimated_time |-> 0,
                  created_at |-> existing_repo.created_at]
    /\ active_tasks' =
         [t \in DOMAIN active_tasks \cup {ALREADY_INDEXED} |->
            IF t = ALREADY_INDEXED
            THEN [NewTask(ALREADY_INDEXED, u) EXCEPT !.status = COMPLETED]
            ELSE active_tasks[t]]
    /\ UNCHANGED <<current_task, coro, running, metadata_dir, indices_dir,
                   repos_dir, ragVars, uuid_count, published, model_calls>>

\* start_indexing, short-circuit branch (lines 59-68).
StartAlreadyIndexed(u) ==
    /\ Idle
    /\ \E existing_repo \in _check_existing_repository(u) :
          ret' = [op |-> "start_indexing",
                  repository_url |-> u,
                  task_id |-> ALREADY_INDEXED,
                  status |-> COMPLETED,
                  message |-> <<"already available",
                                existing_repo.repository_name>>,
                  estimated_time |-> 0,
                  created_at |-> existing_repo.created_at]
    /\ UNCHANGED <<indexerVars, ragVars, uuid_count, published, model_calls>>

\* start_indexing, task creation branch (lines 70-109).
StartNewTask(u) ==
    /\ Idle
    /\ _check_existing_repository(u) = {}
    /\ Cardinality(DOMAIN active_tasks) < MaxTasks
    /\ uuid_count' = uuid_count + 1
    /\ LET task_id == Uuid(uuid_count + 1)
           task == NewTask(task_id, u)
       IN  /\ active_tasks' =
                 [t \in DOMAIN active_tasks \cup {task_id} |->
                    IF t = task_id THEN task ELSE active_tasks[t]]
           /\ current_task' = Some(task_id)
           /\ coro' = [t \in DOMAIN coro \cup {task_id} |->
                         IF t = task_id THEN NewCoro ELSE coro[t]]
           /\ ret' = [op |-> "start_indexing",
                      repository_url |-> u,
                      task_id |-> task_id,
                      status |-> PENDING,
                      message |-> <<"Indexing task created and queued">>,
                      estimated_time |-> 300,
                      created_at |-> task.created_at]
    /\ UNCHANGED <<running, metadata_dir, indices_dir, repos_dir, ragVars,
                   published, model_calls>>

start_indexing(u) == StartAlreadyIndexed(u) \/ StartNewTask(u)

\* The IndexStatusResponse get_indexing_status builds, or None.
StatusView(task_id) ==
    IF task_id \notin DOMAIN active_tasks THEN None
    ELSE LET task == active_tasks[task_id]
         IN  Some([task_id |-> task_id,
                   status |-> task.status,
                   message |-> _get_status_message(task.status),
                   progress |-> task.progress,
                   percentage |-> task.progress.percentage,
                   repository_url |-> task.repository_url,
                   started_at |-> task.started_at,
                   completed_at |-> task.completed_at,
                   error |-> task.error,
                   result |-> task.result])

\* Task ids a caller can ask about: the ids start_indexing hands out (a
\* uuid is unknown to the registry until then) and the synthetic one.
PollIds == {Uuid(n) : n \in 1..MaxTasks} \cup {ALREADY_INDEXED}

\* get_indexing_status that remembers the polled task as the current one.
get_indexing_status_Tracks(task_id) ==
    /\ Idle
    /\ ret' = [op |-> "get_indexing_status",
               task_id |-> task_id,
               value |-> StatusView(task_id)]
    /\ current_task' = Some(task_id)
    /\ UNCHANGED <<active_tasks, coro, running, metadata_dir, indices_dir,
                   repos_dir, ragVars, uuid_count, published, model_calls>>

\* get_indexing_status (lines 111-136)
get_indexing_status(task_id) ==
    /\ Idle
    /\ ret' = [op |-> "get_indexing_status",
               task_id |-> task_id,
               value |-> StatusView(task_id)]
    /\ UNCHANGED <<indexerVars, ragVars, uuid_count, published, model_calls>>

\* clear_index (lines 150-186).  glob order and which unlink raises are the
\* file system's choice: the loop has removed some of the files when one
\* raises, and the except branch then drops both counters.
\* clear_index without its second loop, the one over storage/metadata.
ClearIndexOk_KeepsMetadata ==
    /\ Idle
    /\ indices_dir' = {}
    /\ ret' = [op |-> "clear_index",
               value |-> [success |-> TRUE,
                          files_removed |-> Cardinality(indices_dir),
                          space_freed |-> SizeOfIndexFiles(indices_dir),
                          message |-> "Index cleared successfully"]]
    /\ UNCHANGED <<active_tasks, current_task, coro, running, metadata_dir,
                   repos_dir, ragVars, uuid_count, published, model_calls>>

\* clear_index that also cancels the tasks that are not finished.
ClearIndexOk_CancelsRunning ==
    /\ Idle
    /\ indices_dir' = {}
    /\ metadata_dir' = <<>>
    /\ active_tasks' =
         [t \in DOMAIN active_tasks |->
            IF active_tasks[t].status \in {"pending", "running"}
            THEN [active_tasks[t] EXCEPT !.status = "cancelled"]
            ELSE active_tasks[t]]
    /\ coro' = [t \in DOMAIN coro |-> [coro[t] EXCEPT !.pc = "done"]]
    /\ ret' = [op |-> "clear_index",
               value |-> [success |-> TRUE,
                          files_removed |-> Cardinality(indices_dir),
                          space_freed |-> SizeOfIndexFiles(indices_dir),
                          message |-> "Index cleared successfully"]]
    /\ UNCHANGED <<current_task, running, repos_dir, ragVars, uuid_count,
                   published, model_calls>>

ClearIndexOk ==
    /\ Idle
    /\ indices_dir' = {}
    /\ metadata_dir' = <<>>
    /\ ret' = [op |-> "clear_index",
               value |-> [success |-> TRUE,
                          files_removed |-> Cardinality(indices_dir),
                          space_freed |-> SizeOfIndexFiles(indices_dir),
                          message |-> "Index cleared successfully"]]
    /\ UNCHANGED <<active_tasks, current_task, coro, running, repos_dir,
                   ragVars, uuid_count, published, model_calls>>

ClearIndexFailsOnIndexFile ==
    /\ Idle
    /\ \E removed \in SUBSET indices_dir :
         /\ removed # indices_dir
         /\ indices_dir' = indices_dir \ removed
    /\ ret' = [op |-> "clear_index",
               value |-> [success |-> FALSE,
                          error |-> "unlink",
                          message |-> "Failed to clear index"]]
    /\ UNCHANGED <<active_tasks, current_task, coro, running, metadata_dir,
                   repos_dir, ragVars, uuid_count, published, model_calls>>

ClearIndexFailsOnMetadataFile ==
    /\ Idle
    /\ indices_dir' = {}
    /\ \E kept \in SUBSET (1..Len(metadata_dir)) :
         /\ kept # {}
         /\ metadata_dir' = KeepFiles(metadata_dir, kept)
    /\ ret' = [op |-> "clear_index",
               value |-> [success |-> FALSE,
                          error |-> "unlink",
                          message |-> "Failed to clear index"]]
    /\ UNCHANGED <<active_tasks, current_task, coro, running, repos_dir,
                   ragVars, uuid_count, published, model_calls>>

clear_index ==
    \/ ClearIndexOk
    \/ ClearIndexFailsOnIndexFile
    \/ ClearIndexFailsOnMetadataFile

\* get_index_stats treating an unreadable latest metadata file like an
\* empty metadata directory.
IndexStats_CorruptIsNotIndexed ==
    IF metadata_dir = <<>> \/ ~metadata_dir[Len(metadata_dir)].parseable
    THEN [is_indexed |-> FALSE, repository_name |-> None, file_count |-> 0,
          total_size |-> 0, vector_count |-> 0, last_updated |-> NoneStr,
          created_at |-> NoneStr]
    ELSE LET metadata == metadata_dir[Len(metadata_dir)].metadata[1]
         IN  [is_indexed |-> TRUE,
              repository_name |-> metadata.repository_name,
              file_count |-> metadata.file_count,
              total_size |-> SizeOfIndexFiles(indices_dir),
              vector_count |-> metadata.file_count * 10,
              last_updated |-> metadata.indexed_at,
              created_at |-> metadata.created_at]

\* The IndexStats get_index_stats returns (lines 188-266); the most recently
\* modified metadata file is the last one of metadata_dir.
IndexStats ==
    IF metadata_dir = <<>>
    THEN [is_indexed |-> FALSE, repository_name |-> None, file_count |-> 0,
          total_size |-> 0, vector_count |-> 0, last_updated |-> NoneStr,
          created_at |-> NoneStr]
    ELSE LET latest_metadata == metadata_dir[Len(metadata_dir)]
         IN  IF ~latest_metadata.parseable
             THEN [is_indexed |-> TRUE,
                   repository_name |-> <<"Unknown Repository">>,
                   file_count |-> 0, total_size |-> 0, vector_count |-> 0,
                   last_updated |-> NoneStr, created_at |-> NoneStr]
             ELSE LET metadata == latest_metadata.metadata[1]
                      sizes == [k \in 1..Len(metadata.files) |->
                                  metadata.files[k].size]
                  IN  [is_indexed |-> TRUE,
                       repository_name |-> metadata.repository_name,
                       file_count |-> metadata.file_count,
                       total_size |-> SumSeq(sizes)
                                        + SizeOfIndexFiles(indices_dir),
                       vector_count |-> metadata.file_count * 10,
                       last_updated |-> metadata.indexed_at,
                       created_at |-> metadata.created_at]

get_index_stats ==
    /\ Idle
    /\ ret' = [op |-> "get_index_stats", value |-> IndexStats]
    /\ UNCHANGED <<indexerVars, ragVars, uuid_count, published, model_calls>>

\* _save_index_metadata (lines 439-467) called on its own.
_save_index_metadata(task_id, processed_files, repo_url) ==
    /\ Idle
    /\ metadata_dir' =
         WriteFile(metadata_dir,
                   MetadataFile(task_id,
                                IndexMetadata(task_id, processed_files,
                                              repo_url)))
    /\ ret' = [op |-> "_save_index_metadata",
               task_id |-> task_id,
               processed_files |-> processed_files]
    /\ UNCHANGED <<active_tasks, current_task, coro, running, indices_dir,
                   repos_dir, ragVars, uuid_count, published, model_calls>>

\* ------------------------------------------- _index_repository_async
\* The coroutine t may take its next step: it owns the loop, or the loop is
\* free and t is scheduled or has finished its sleep.
MayRun(t, pc) ==
    /\ t \in DOMAIN coro
    /\ coro[t].pc = pc
    /\ \/ running = Some(t)
       \/ running = None /\ pc \in {"start", "loop"}

SetTask(t, task) == active_tasks' = [active_tasks EXCEPT ![t] = task]
SetCoro(t, c) == coro' = [coro EXCEPT ![t] = c]

\* The except branch without the completion timestamp.
ExceptBranch_NoCompletedAt(task, e) ==
    _update_progress([task EXCEPT !.status = FAILED,
                                  !.error = e],
                     <<"Indexing failed", e>>, 0, 0, Pct(0))

\* The except branch recording the failure as a cancellation.
ExceptBranch_Cancels(task, e) ==
    _update_progress([task EXCEPT !.status = CANCELLED,
                                  !.error = e,
                                  !.completed_at = SetTime],
                     <<"Indexing failed", e>>, 0, 0, Pct(0))

\* The except branch that records the error but leaves the status alone.
ExceptBranch_KeepsStatus(task, e) ==
    _update_progress([task EXCEPT !.error = e,
                                  !.completed_at = SetTime],
                     <<"Indexing failed", e>>, 0, 0, Pct(0))

\* Lines 359-363, the except branch: what it makes of the task dict when
\* the exception e reaches it.
ExceptBranch(task, e) ==
    _update_progress([task EXCEPT !.status = FAILED,
                                  !.error = e,
                                  !.completed_at = SetTime],
                     <<"Indexing failed", e>>, 0, 0, Pct(0))

\* A step of a coroutine is not a public operation and returns nothing.
NoReturn == [op |-> "none"]

\* The first step of the coroutine without the started_at timestamp.
TaskBegin_NoStartedAt(t) ==
    /\ MayRun(t, "start")
    /\ SetTask(t, _update_progress(
                     [active_tasks[t] EXCEPT !.status = RUNNING],
                     <<"Cloning repository...">>, 0, 0, Pct(0)))
    /\ SetCoro(t, [coro[t] EXCEPT !.pc = "clone"])
    /\ running' = Some(t)
    /\ ret' = NoReturn
    /\ UNCHANGED <<current_task, metadata_dir, indices_dir, repos_dir,
                   ragVars, uuid_count, published, model_calls>>

\* Lines 276-287: RUNNING, started_at, first progress checkpoint.
TaskBegin(t) ==
    /\ MayRun(t, "start")
    /\ SetTask(t, _update_progress(
                     [active_tasks[t] EXCEPT !.status = RUNNING,
                                             !.started_at = SetTime],
                     <<"Cloning repository...">>, 0, 0, Pct(0)))
    /\ SetCoro(t, [coro[t] EXCEPT !.pc = "clone"])
    /\ running' = Some(t)
    /\ ret' = NoReturn
    /\ UNCHANGED <<current_task, metadata_dir, indices_dir, repos_dir,
                   ragVars, uuid_count, published, model_calls>>

\* Line 288 with _clone_repository (374-396), then the checkpoint of 291.
\* The old working copy of the same name is removed before git runs.
TaskCloneOk(t) ==
    /\ MayRun(t, "clone")
    /\ repos_dir' = repos_dir \cup {RepoName(active_tasks[t].repository_url)}
    /\ SetTask(t, _update_progress(active_tasks[t],
                                   <<"Discovering files...">>, 0, 0, Pct(5)))
    /\ SetCoro(t, [coro[t] EXCEPT !.pc = "discover"])
    /\ ret' = NoReturn
    /\ UNCHANGED <<current_task, running, metadata_dir, indices_dir,
                   ragVars, uuid_count, published, model_calls>>

TaskCloneFails(t) ==
    /\ MayRun(t, "clone")
    /\ repos_dir' = repos_dir \ {RepoName(active_tasks[t].repository_url)}
    /\ SetTask(t, ExceptBranch(active_tasks[t], "Failed to clone repository"))
    /\ SetCoro(t, Finished("Failed to clone repository"))
    /\ running' = None
    /\ ret' = NoReturn
    /\ UNCHANGED <<current_task, metadata_dir, indices_dir, ragVars,
                   uuid_count, published, model_calls>>

\* Lines 292-301: _discover_files returns one of `lists`, total_files is
\* set.
TaskDiscover(t, lists) ==
    /\ MayRun(t, "discover")
    /\ \E files_to_process \in lists :
         /\ SetTask(t, _update_progress(
                          [active_tasks[t] EXCEPT !.progress.total_files =
                                                    Len(files_to_process)],
                          <<"Found files to process", Len(files_to_process)>>,
                          0, Len(files_to_process), Pct(10)))
         /\ SetCoro(t, [coro[t] EXCEPT !.pc = "loop",
                                       !.files_to_process = files_to_process])
    /\ ret' = NoReturn
    /\ UNCHANGED <<current_task, running, metadata_dir, indices_dir,
                   repos_dir, ragVars, uuid_count, published, model_calls>>

TaskDiscoverOk(t) == TaskDiscover(t, FileLists)
\* The working copy holds oversized, undecodable and unreadable files too.
TaskDiscoverAny(t) == TaskDiscover(t, AllFileLists)

\* _discover_files raises (rglob rejects an include pattern).
TaskDiscoverFails(t) ==
    /\ MayRun(t, "discover")
    /\ SetTask(t, ExceptBranch(active_tasks[t], "Unacceptable pattern"))
    /\ SetCoro(t, Finished("Unacceptable pattern"))
    /\ running' = None
    /\ ret' = NoReturn
    /\ UNCHANGED <<current_task, metadata_dir, indices_dir, repos_dir,
                   ragVars, uuid_count, published, model_calls>>

\* Lines 303-311, the `continue` of the deduplication: no progress update
\* and no sleep, the loop goes on with the next file.
TaskSkipDuplicate(t) ==
    /\ MayRun(t, "loop")
    /\ coro[t].i < Len(coro[t].files_to_process)
    /\ LET relative_path == coro[t].files_to_process[coro[t].i + 1]
       IN  /\ relative_path \in coro[t].processed_file_paths
           /\ SetTask(t, [active_tasks[t] EXCEPT
                            !.progress.current_file = relative_path])
           /\ SetCoro(t, [coro[t] EXCEPT !.i = @ + 1])
    /\ running' = Some(t)
    /\ ret' = NoReturn
    /\ UNCHANGED <<current_task, metadata_dir, indices_dir, repos_dir,
                   ragVars, uuid_count, published, model_calls>>

\* Lines 303-342: one file is indexed, progress is updated, the coroutine
\* sleeps and gives up the loop.
TaskProcessFile(t) ==
    /\ MayRun(t, "loop")
    /\ coro[t].i < Len(coro[t].files_to_process)
    /\ LET c == coro[t]
           i == c.i
           n == Len(c.files_to_process)
           relative_path == c.files_to_process[i + 1]
           file_entry ==
               index_file(relative_path,
                          RepoName(active_tasks[t].repository_url)
                            \in repos_dir,
                          i + 1)
           processed_files ==
               IF file_entry # None
               THEN Append(c.processed_files, file_entry[1])
               ELSE c.processed_files
           total_bytes ==
               IF file_entry # None
               THEN c.total_bytes + file_entry[1].size
               ELSE c.total_bytes
           progress_percentage ==
               [num |-> 10 * n + (i + 1) * 80, den |-> n]
       IN  /\ relative_path \notin c.processed_file_paths
           /\ SetTask(t, _update_progress(
                [active_tasks[t] EXCEPT
                   !.progress.current_file = relative_path,
                   !.progress.bytes_processed = total_bytes,
                   !.progress.elapsed_time =
                       IF i > 0 THEN SetTime ELSE @,
                   !.progress.estimated_remaining =
                       IF i > 0 THEN SetTime ELSE @],
                <<"Processing", relative_path, i + 1, n>>,
                i + 1, n, progress_percentage))
           /\ SetCoro(t, [c EXCEPT
                            !.i = i + 1,
                            !.processed_file_paths = @ \cup {relative_path},
                            !.processed_files = processed_files,
                            !.total_bytes = total_bytes])
    /\ running' = None
    /\ ret' = NoReturn
    /\ UNCHANGED <<current_task, metadata_dir, indices_dir, repos_dir,
                   ragVars, uuid_count, published, model_calls>>

\* Lines 345-346 with _save_index_metadata (439-467): the 90% checkpoint,
\* then the snapshot file is opened for writing and the JSON is dumped.
SaveCheckpoint_Hundred(t) ==
    LET n == Len(coro[t].files_to_process)
    IN  _update_progress(active_tasks[t], <<"Creating index metadata...">>,
                         n, n, Pct(100))

SaveCheckpoint(t) ==
    LET n == Len(coro[t].files_to_process)
    IN  _update_progress(active_tasks[t], <<"Creating index metadata...">>,
                         n, n, Pct(90))

\* The step after the file loop without the snapshot write.
TaskSaveOk_WritesNothing(t) ==
    /\ MayRun(t, "loop")
    /\ coro[t].i = Len(coro[t].files_to_process)
    /\ SetTask(t, SaveCheckpoint(t))
    /\ SetCoro(t, [coro[t] EXCEPT !.pc = "complete"])
    /\ running' = Some(t)
    /\ ret' = NoReturn
    /\ UNCHANGED <<current_task, metadata_dir, indices_dir, repos_dir,
                   ragVars, uuid_count, published, model_calls>>

TaskSaveOk(t) ==
    /\ MayRun(t, "loop")
    /\ coro[t].i = Len(coro[t].files_to_process)
    /\ SetTask(t, SaveCheckpoint(t))
    /\ metadata_dir' =
         Append(metadata_dir,
                MetadataFile(t, IndexMetadata(t, coro[t].processed_files,
                                 active_tasks[t].repository_url)))
    /\ SetCoro(t, [coro[t] EXCEPT !.pc = "complete"])
    /\ running' = Some(t)
    /\ ret' = NoReturn
    /\ UNCHANGED <<current_task, indices_dir, repos_dir, ragVars, uuid_count, published, model_calls>>

\* open(metadata_file, "w") raises: no file is created.
TaskSaveOpenFails(t) ==
    /\ MayRun(t, "loop")
    /\ coro[t].i = Len(coro[t].files_to_process)
    /\ SetTask(t, ExceptBranch(SaveCheckpoint(t), "open failed"))
    /\ SetCoro(t, Finished("open failed"))
    /\ running' = None
    /\ ret' = NoReturn
    /\ UNCHANGED <<current_task, metadata_dir, indices_dir, repos_dir,
                   ragVars, uuid_count, published, model_calls>>

\* json.dump (or the flush on close) raises after open created the file:
\* what was written so far stays on disk.
TaskSaveWriteFails(t) ==
    /\ MayRun(t, "loop")
    /\ coro[t].i = Len(coro[t].files_to_process)
    /\ SetTask(t, ExceptBranch(SaveCheckpoint(t), "write failed"))
    /\ metadata_dir' = Append(metadata_dir, PartialFile(t))
    /\ SetCoro(t, Finished("write failed"))
    /\ running' = None
    /\ ret' = NoReturn
    /\ UNCHANGED <<current_task, indices_dir, repos_dir, ragVars,
                   uuid_count, published, model_calls>>

\* Lines 349-357: COMPLETED, completed_at, result, the 100% checkpoint.
TaskComplete(t) ==
    /\ MayRun(t, "complete")
    /\ LET n == Len(coro[t].files_to_process)
       IN  SetTask(t, _update_progress(
                [active_tasks[t] EXCEPT
                   !.status = COMPLETED,
                   !.completed_at = SetTime,
                   !.result = Some([files_processed |->
                                      Len(coro[t].processed_files),
                                    total_bytes |-> coro[t].total_bytes,
                                    processing_time |-> SetTime])],
                <<"Indexing completed successfully!">>, n, n, Pct(100)))
    /\ SetCoro(t, Finished(NoneStr))
    /\ running' = None
    /\ ret' = NoReturn
    /\ UNCHANGED <<current_task, metadata_dir, indices_dir, repos_dir,
                   ragVars, uuid_count, published, model_calls>>

\* ------------------------------------------------------------ RAGService
cache_max_size == 100

\* A str is the sequence of its tokens: a token is a word, a run of digits,
\* a suffix, a punctuation mark or one white-space character, so that the
\* substring, split and strip operations of the code act on whole tokens.
\* str.lower() of one token.
Lower(ch) ==
    CASE ch = "H" -> "h"
      [] ch = "I" -> "i"
      [] ch = "Q" -> "q"
      [] ch = "Default" -> "default"
      [] ch = "Port" -> "port"
      [] OTHER -> ch
LowerText(str) == [k \in 1..Len(str) |-> Lower(str[k])]

\* Number of characters of a token and of a str.
TokLen(tok) ==
    CASE tok \in {"default", "Default", "depends"} -> 7
      [] tok = "config" -> 6
      [] tok \in {"port", "Port", "8080", ".png", ".bin", "main", ".rst"} -> 4
      [] tok \in {"notes", "utils"} -> 5
      [] tok = "readme" -> 6
      [] tok \in {"app", ".md"} -> 3
      [] tok \in {".py", "The"} -> 3
      [] tok \in {"is", "It", ". "} -> 2
      [] tok = "locked" -> 6
      [] tok = "logo" -> 4
      [] tok = "big" -> 3
      [] OTHER -> 1
RECURSIVE StrLen(_)
StrLen(str) == IF str = <<>> THEN 0 ELSE TokLen(Head(str)) + StrLen(Tail(str))

\* a in b, for two str values.
IsIn(a, b) ==
    \E i \in 1..(Len(b) - Len(a) + 1) : SubSeq(b, i, i + Len(a) - 1) = a
\* A one-token str.
W(tok) == <<tok>>

\* str.split(): the set of the maximal runs of non-blank tokens.
RECURSIVE SplitWords(_, _, _)
SplitWords(str, word, acc) ==
    LET closed == IF word = <<>> THEN acc ELSE acc \cup {word}
    IN  IF str = <<>> THEN closed
        ELSE IF Head(str) \in {" ", "\n"}
             THEN SplitWords(Tail(str), <<>>, closed)
             ELSE SplitWords(Tail(str), Append(word, Head(str)), acc)

\* s[:n]: the longest prefix of whole tokens with at most n characters.
RECURSIVE Prefix(_, _)
Prefix(str, n) ==
    IF str = <<>> \/ TokLen(Head(str)) > n THEN <<>>
    ELSE <<Head(str)>> \o Prefix(Tail(str), n - TokLen(Head(str)))

\* The tokens of a relative path and the text of the files of a working
\* copy (read_text of a file that decodes).
PathTokens(p) ==
    CASE p = "config.py" -> <<"config", ".py">>
      [] p = "big.bin" -> <<"big", ".bin">>
      [] p = "logo.png" -> <<"logo", ".png">>
      [] p = "locked.py" -> <<"locked", ".py">>
      [] p = "main.py" -> <<"main", ".py">>
      [] p = "utils.py" -> <<"utils", ".py">>
      [] p = "app.py" -> <<"app", ".py">>
      [] p = "readme.md" -> <<"readme", ".md">>
      [] p = "notes.rst" -> <<"notes", ".rst">>
FileContent(p) ==
    CASE p = "config.py" -> <<"default", ":", " ", "8080">>
      [] OTHER -> <<"x">>
RECURSIVE LStrip(_)
LStrip(str) ==
    IF str # <<>> /\ Head(str) \in {" ", "\n"} THEN LStrip(Tail(str)) ELSE str
RECURSIVE RStrip(_)
RStrip(str) ==
    IF str # <<>> /\ str[Len(str)] \in {" ", "\n"}
    THEN RStrip(SubSeq(str, 1, Len(str) - 1))
    ELSE str
Strip(str) == RStrip(LStrip(str))

\* The working copy the retrieval reads: ./storage/repositories/web-rag-service
WebRagService == <<"web-rag-service">>

\* Number of the words of `words` that occur in the str `text`.
CountIn(words, text) == Cardinality({w \in words : IsIn(w, text)})
AnyIn(words, text) == \E w \in words : IsIn(w, text)

\* _calculate_content_relevance (lines 700-755): 0 when the file is not in
\* the working copy or its read raises.
_calculate_content_relevance(file_info, query_words) ==
    LET p == file_info.file_path
        content == LowerText(Prefix(FileContent(p), 1000))
        related_terms(query_word) ==
            CASE query_word = W("embedding") ->
                   {W("sentence"), W("transformer"), W("model"), W("vector"),
                    W("embedding")}
              [] query_word = W("config") ->
                   {W("config"), W("configuration"), W("setting"),
                    W("default"), W("parameter")}
              [] query_word = W("chunking") ->
                   {W("chunk"), W("chunking"), W("split"), W("segment"),
                    W("token")}
              [] query_word = W("model") ->
                   {W("model"), W("llm"), W("transformer"), W("neural"),
                    W("ai")}
              [] OTHER -> {}
        related == [w \in query_words |-> CountIn(related_terms(w), content)]
        RECURSIVE SumOver(_)
        SumOver(S) == IF S = {} THEN 0
                      ELSE LET w == CHOOSE x \in S : TRUE
                           IN  related[w] + SumOver(S \ {w})
        score == 3 * CountIn(query_words, content)
                 + 2 * SumOver(query_words)
                 + (IF AnyIn({<<"class", " ">>, <<"def", " ">>,
                              <<"function", " ">>}, content)
                    THEN 1 ELSE 0)
                 + (IF AnyIn({W("config"), W("settings"), W("default"),
                              W("parameter")}, content)
                    THEN 2 ELSE 0)
    IN  IF WebRagService \notin repos_dir THEN 0
        ELSE IF ~RepoFile(p).readable \/ ~RepoFile(p).decodable THEN 0
        ELSE IF score < 10 THEN score ELSE 10

\* The relevance score of one file of the snapshot (lines 560-616).
FileScore(file_info, query_words) ==
    LET path == LowerText(PathTokens(file_info.file_path))
        last == path[Len(path)]
        language == file_info.language
        boost(word) ==
            IF word \in {W("chunker"), W("chunking"), W("chunk"), W("service")}
            THEN IF IsIn(W("chunker"), path) THEN 10 ELSE 0
            ELSE IF word \in {W("embedding"), W("model"), W("config"),
                              W("configuration")}
            THEN IF AnyIn({W("config"), W("chunker"), W("embedding")}, path)
                 THEN 8 ELSE 0
            ELSE IF word \in {W("default"), W("parameter"), W("setting")}
            THEN IF AnyIn({W("config"), W("chunker"), W("main")}, path)
                 THEN 6 ELSE 0
            ELSE 0
        RECURSIVE SumBoost(_)
        SumBoost(S) == IF S = {} THEN 0
                       ELSE LET w == CHOOSE x \in S : TRUE
                            IN  boost(w) + SumBoost(S \ {w})
    IN  8 * CountIn(query_words, path)
        + 5 * Cardinality({w \in query_words :
                             StrLen(w) > 3 /\ IsIn(w, path)})
        + SumBoost(query_words)
        + (IF language # NoneStr /\ \E w \in query_words :
                                       IsIn(w, W(language))
           THEN 2 ELSE 0)
        + (IF language \in {"python", "javascript", "typescript"}
           THEN 1 ELSE 0)
        + (IF last = ".md" THEN 4
           ELSE IF last \in {".py", ".js", ".ts"} THEN 2
           ELSE IF last \in {".txt", ".json", ".yaml", ".yml"} THEN 1
           ELSE 0)
        + 2 * CountIn({W("readme"), W("config"), W("main"), W("index"),
                       W("chunker"), W("indexer"), W("crawler")}, path)
        + _calculate_content_relevance(file_info, query_words)

\* A descending sort that puts the later of two equal scores first.
RECURSIVE SortByScore_LaterTieFirst(_)
SortByScore_LaterTieFirst(pairs) ==
    IF pairs = <<>> THEN <<>>
    ELSE LET best == CHOOSE k \in 1..Len(pairs) :
                        /\ \A j \in 1..Len(pairs) :
                              pairs[j].score <= pairs[k].score
                        /\ \A j \in (k + 1)..Len(pairs) :
                              pairs[j].score < pairs[k].score
         IN  <<pairs[best]>>
             \o SortByScore_LaterTieFirst(
                   KeepFiles(pairs, (1..Len(pairs)) \ {best}))

\* list.sort(key=score, reverse=True): stable, by descending score.
RECURSIVE SortByScore(_)
SortByScore(pairs) ==
    IF pairs = <<>> THEN <<>>
    ELSE LET best == CHOOSE k \in 1..Len(pairs) :
                        /\ \A j \in 1..Len(pairs) :
                              pairs[j].score <= pairs[k].score
                        /\ \A j \in 1..(k - 1) :
                              pairs[j].score < pairs[k].score
         IN  <<pairs[best]>>
             \o SortByScore(KeepFiles(pairs, (1..Len(pairs)) \ {best}))

\* What the retrieval makes of one of the top files (lines 625-652): the
\* str handed to the engine and the SourceReference handed to the caller.
Preview(p) ==
    LET content == FileContent(p)
    IN  IF StrLen(content) > 500
        THEN Prefix(content, 500) \o <<"\n... (truncated)">>
        ELSE content
ContextStr(p) ==
    [kind |-> "str", str |-> <<"File: ">> \o PathTokens(p) \o <<"\n">>
                              \o Preview(p)]
SourceReference(p, score) ==
    [kind |-> "SourceReference",
     file |-> PathTokens(p),
     content |-> Preview(p),
     score |-> IF score < 30 THEN [num |-> score, den |-> 30] ELSE Pct(1),
     type |-> IF PathTokens(p)[Len(PathTokens(p))] \in {".py", ".js", ".ts"}
              THEN "code" ELSE "doc"]

\* _retrieve_relevant_content (lines 523-660).
_retrieve_relevant_content(query_text) ==
    LET nothing == [retrieved_content |-> <<>>, sources |-> <<>>]
    IN  IF metadata_dir = <<>> THEN nothing
        ELSE IF ~metadata_dir[Len(metadata_dir)].parseable THEN nothing
        ELSE
          LET files == metadata_dir[Len(metadata_dir)].metadata[1].files
              query_words == SplitWords(LowerText(query_text), <<>>, {})
              scored == [k \in 1..Len(files) |->
                           [file_info |-> files[k],
                            score |-> FileScore(files[k], query_words)]]
              relevant_files ==
                  SortByScore(SelectSeq(scored, LAMBDA x : x.score > 0))
              top_files == SubSeq(relevant_files, 1,
                                  IF Len(relevant_files) < 3
                                  THEN Len(relevant_files) ELSE 3)
              read == SelectSeq(top_files, LAMBDA x :
                         /\ WebRagService \in repos_dir
                         /\ RepoFile(x.file_info.file_path).readable
                         /\ RepoFile(x.file_info.file_path).decodable)
          IN  [retrieved_content |->
                   [k \in 1..Len(read) |->
                      ContextStr(read[k].file_info.file_path)],
               sources |->
                   [k \in 1..Len(read) |->
                      SourceReference(read[k].file_info.file_path,
                                      read[k].score)]]

\* f"{request.query.lower().strip()}:{request.max_sources or 5}"
CacheKey(query_text, max_sources) ==
    <<RStrip(LStrip([k \in 1..Len(query_text) |-> Lower(query_text[k])])),
      IF max_sources = None \/ max_sources = Some(0)
      THEN 5 ELSE max_sources[1]>>

CachedAt(cache_key) ==
    {k \in 1..Len(response_cache) : response_cache[k].key = cache_key}

\* What a call of self.model(prompt, ...) does: it returns a completion
\* (one that states the port, one that does not and ends with a stop
\* artifact after a short trailing sentence) or it raises.
GeneratedTexts ==
    {<<"The", " ", "port", " ", "is", " ", "8080">>,
     <<" ", "It", " ", "depends", ". ", "x", "</s>">>}
EngineOutcomes ==
    {[raised |-> FALSE, text |-> t] : t \in GeneratedTexts}
      \cup {[raised |-> TRUE, text |-> <<"Model error">>]}

\* _validate_response (lines 662-698) of a one-line completion: the stop
\* artifacts are removed, the line is stripped and dropped when it ends
\* with a code fence (the token "fence"), and a last sentence shorter
\* than 20 characters is cut off.
_validate_response(response) ==
    LET clean == SelectSeq(response, LAMBDA tok :
                    tok \notin {"<|endoftext|>", "</s>", "[INST]"})
        line == Strip(clean)
        cleaned_response ==
            IF line # <<>> /\ line[Len(line)] \in {"fence", "fence python", "fence json"}
            THEN <<>> ELSE line
        stops == {k \in 1..Len(cleaned_response) : cleaned_response[k] = ". "}
        last_stop == CHOOSE k \in stops : \A j \in stops : j <= k
    IN  IF stops # {}
           /\ StrLen(SubSeq(cleaned_response, last_stop + 1,
                             Len(cleaned_response))) < 20
        THEN Strip(SubSeq(cleaned_response, 1, last_stop - 1) \o <<".">>)
        ELSE Strip(cleaned_response)

\* The re.findall of the default pattern, ignoring case: the values that
\* follow the word default, one or more of colon, blank and equals sign,
\* and an optional quote.
DefaultsIn(content) ==
    LET seps == {":", " ", "=", "\n"}
        quotes == {"\"", "'"}
        \* the position of the value that a default at position k leads to
        valueAt(k) ==
            LET after == {j \in (k + 1)..Len(content) : content[j] \notin seps}
                j == CHOOSE i \in after : \A h \in after : i <= h
                v == IF content[j] \in quotes THEN j + 1 ELSE j
            IN  IF after = {} \/ j = k + 1 THEN 0
                ELSE IF v > Len(content) THEN 0
                ELSE IF content[v] \in seps \cup quotes \cup {","} THEN 0
                ELSE v
    IN  {content[valueAt(k)] :
           k \in {i \in 1..Len(content) :
                    Lower(content[i]) = "default" /\ valueAt(i) # 0}}

\* ', '.join of a set of values; the order of several values is that of
\* the set's hash order, the texts of this model yield one at most.
RECURSIVE Join(_)
Join(values) ==
    IF values = {} THEN <<>>
    ELSE LET v == CHOOSE x \in values : TRUE
         IN  IF values = {v} THEN <<v>>
             ELSE <<v, ", ">> \o Join(values \ {v})

\* _fact_check_response (lines 757-819).  `context` is the list the caller
\* passed: str items have neither .content nor .file, so the comprehension
\* over src.file raises AttributeError for them and the except branch
\* returns the response as it came.
_fact_check_response(response, context, query_text) ==
    LET q == LowerText(query_text)
        items == {context[k] : k \in 1..Len(context)}
        with_content == {src \in items : src.kind = "SourceReference"}
        actual_models ==
            {m \in {"all-MiniLM-L6-v2", "sentence-transformers"} :
               \E src \in with_content :
                  LET content == LowerText(src.content)
                  IN  IF IsIn(W("all-minilm"), content)
                      THEN m = "all-MiniLM-L6-v2"
                      ELSE /\ IsIn(W("sentence"), content)
                           /\ IsIn(W("transformer"), content)
                           /\ m = "sentence-transformers"}
        embedding_note ==
            IF /\ IsIn(W("embedding"), q) /\ IsIn(W("model"), q)
               /\ actual_models # {}
               /\ ~\E m \in actual_models :
                     IsIn(W(Lower(m)), LowerText(response))
            THEN <<"\n\nNote: Based on the source code, the actual embedding model appears to be: ">>
                 \o Join(actual_models)
            ELSE <<>>
        config_files ==
            SelectSeq(context, LAMBDA src :
                         IsIn(W("config"), LowerText(src.file)))
        config_note ==
            IF /\ IsIn(W("config"), q)
               /\ config_files # <<>>
               /\ ~\E k \in 1..Len(config_files) :
                     IsIn(config_files[k].file, response)
            THEN <<"\n\nConfiguration is found in: ">>
                 \o config_files[1].file
            ELSE <<>>
        default_values ==
            UNION {DefaultsIn(src.content) : src \in with_content}
        default_note ==
            IF IsIn(W("default"), q) /\ default_values # {}
            THEN <<"\n\nDefault values found in source: ">>
                 \o Join(default_values)
            ELSE <<>>
    IN  IF IsIn(W("config"), q) /\ \E src \in items : src.kind = "str"
        THEN response
        ELSE response \o embedding_note \o config_note \o default_note

\* generate_response that hands back the bare exception text.
generate_response_BareError(query_text, context, outcome) ==
    IF outcome.raised
    THEN outcome.text
    ELSE _fact_check_response(_validate_response(Strip(outcome.text)),
                              context, query_text)

\* generate_response (lines 441-521) for the outcome of the engine call.
generate_response(query_text, context, outcome) ==
    IF outcome.raised
    THEN <<"Error generating response: ">> \o outcome.text
    ELSE _fact_check_response(_validate_response(Strip(outcome.text)),
                              context, query_text)

NotInitializedAnswer ==
    <<"Error: ", "RAG service not initialized. Model failed to load during startup.",
      "Please check the server logs for initialization errors and restart the server after fixing the issues.">>

\* The engine is not called (the model is not loaded).
NoCall == [raised |-> FALSE, text |-> <<>>]

\* The eviction that removes the newest entry of a full cache.
Evicted_Newest(cache) ==
    IF Len(cache) >= cache_max_size
    THEN SubSeq(cache, 1, Len(cache) - 1) ELSE cache

\* Lines 204-208: a full cache loses its oldest entry, next(iter(dict)).
Evicted(cache) ==
    IF Len(cache) >= cache_max_size THEN Tail(cache) ELSE cache

\* A cache hit that answers in the conversation of the request.
QueryCacheHit_OwnConversation(query_text, max_sources, conversation_id) ==
    /\ Idle
    /\ \E k \in CachedAt(CacheKey(query_text, max_sources)) :
         ret' = [op |-> "query",
                 request |-> [query |-> query_text,
                              max_sources |-> max_sources,
                              conversation_id |-> conversation_id],
                 value |-> [response_cache[k].response EXCEPT
                              !.conversation_id =
                                 IF conversation_id = None THEN @
                                 ELSE conversation_id[1]]]
    /\ UNCHANGED <<indexerVars, ragVars, uuid_count, published, model_calls>>

\* query, cache hit (lines 146-151).
QueryCacheHit(query_text, max_sources, conversation_id) ==
    /\ Idle
    /\ \E k \in CachedAt(CacheKey(query_text, max_sources)) :
         ret' = [op |-> "query",
                 request |-> [query |-> query_text,
                              max_sources |-> max_sources,
                              conversation_id |-> conversation_id],
                 value |-> response_cache[k].response]
    /\ UNCHANGED <<indexerVars, ragVars, uuid_count, published, model_calls>>

\* query, cache miss (lines 153-215).
QueryCacheMiss(query_text, max_sources, conversation_id) ==
    /\ Idle
    /\ CachedAt(CacheKey(query_text, max_sources)) = {}
    /\ \E outcome \in IF is_initialized THEN EngineOutcomes ELSE {NoCall} :
         LET id == IF conversation_id = None
                   THEN Uuid(uuid_count + 1)
                   ELSE conversation_id[1]
             user_message == [role |-> "user", content |-> query_text,
                              timestamp |-> SetTime, sources |-> None]
             retrieved == _retrieve_relevant_content(query_text)
             answer == IF ~is_initialized THEN NotInitializedAnswer
                       ELSE generate_response(query_text,
                                              retrieved.retrieved_content,
                                              outcome)
             sources == IF ~is_initialized THEN <<>> ELSE retrieved.sources
             assistant_message ==
                 [role |-> "assistant", content |-> answer,
                  timestamp |-> SetTime, sources |-> Some(sources)]
             before == IF id \in DOMAIN conversations
                       THEN conversations[id] ELSE <<>>
             response ==
                 [response |-> answer,
                  sources |-> sources,
                  conversation_id |-> id,
                  model |-> IF is_initialized THEN "codellama-7b"
                            ELSE "error - model not loaded"]
         IN  /\ model_calls' =
                  IF is_initialized
                  THEN Append(model_calls, [query |-> query_text,
                                            raised |-> outcome.raised,
                                            text |-> outcome.text])
                  ELSE model_calls
             /\ uuid_count' = IF conversation_id = None
                              THEN uuid_count + 1 ELSE uuid_count
             /\ conversations' =
                  [c \in DOMAIN conversations \cup {id} |->
                     IF c = id
                     THEN before \o <<user_message, assistant_message>>
                     ELSE conversations[c]]
             /\ response_cache' =
                  Append(Evicted(response_cache),
                         [key |-> CacheKey(query_text, max_sources),
                          response |-> response])
             /\ ret' = [op |-> "query",
                        request |-> [query |-> query_text,
                                     max_sources |-> max_sources,
                                     conversation_id |-> conversation_id],
                        value |-> response]
    /\ UNCHANGED <<indexerVars, is_initialized, published>>

query(query_text, max_sources, conversation_id) ==
    \/ QueryCacheHit(query_text, max_sources, conversation_id)
    \/ QueryCacheMiss(query_text, max_sources, conversation_id)

\* initialize (lines 60-132): the model file is loaded, or one of the
\* checks fails or Llama(...) raises.
InitializeOk ==
    /\ Idle
    /\ is_initialized' = TRUE
    /\ ret' = [op |-> "initialize", value |-> TRUE]
    /\ UNCHANGED <<indexerVars, conversations, response_cache, uuid_count,
                   published, model_calls>>

InitializeFails ==
    /\ Idle
    /\ is_initialized' = FALSE
    /\ ret' = [op |-> "initialize", value |-> FALSE]
    /\ UNCHANGED <<indexerVars, conversations, response_cache, uuid_count,
                   published, model_calls>>

initialize == InitializeOk \/ InitializeFails

\* clear_history that also forgets the cached responses.
ClearOneConversation_DropsCache(conversation_id) ==
    /\ Idle
    /\ conversation_id \in DOMAIN conversations
    /\ conversations' = [c \in DOMAIN conversations \ {conversation_id} |->
                           conversations[c]]
    /\ response_cache' = <<>>
    /\ ret' = [op |-> "clear_history",
               value |-> [success |-> TRUE,
                          message |-> <<"Conversation cleared",
                                        conversation_id>>]]
    /\ UNCHANGED <<indexerVars, is_initialized, uuid_count, published,
                   model_calls>>

\* clear_history that empties the conversation and keeps its key.
ClearOneConversation_KeepsKey(conversation_id) ==
    /\ Idle
    /\ conversation_id \in DOMAIN conversations
    /\ conversations' = [conversations EXCEPT ![conversation_id] = <<>>]
    /\ ret' = [op |-> "clear_history",
               value |-> [success |-> TRUE,
                          message |-> <<"Conversation cleared",
                                        conversation_id>>]]
    /\ UNCHANGED <<indexerVars, response_cache, is_initialized, uuid_count,
                   published, model_calls>>

\* clear_history (lines 296-330).
ClearOneConversation(conversation_id) ==
    /\ Idle
    /\ conversation_id \in DOMAIN conversations
    /\ conversations' = [c \in DOMAIN conversations \ {conversation_id} |->
                           conversations[c]]
    /\ ret' = [op |-> "clear_history",
               value |-> [success |-> TRUE,
                          message |-> <<"Conversation cleared",
                                        conversation_id>>]]
    /\ UNCHANGED <<indexerVars, response_cache, is_initialized, uuid_count, published, model_calls>>

ClearUnknownConversation(conversation_id) ==
    /\ Idle
    /\ conversation_id \notin DOMAIN conversations
    /\ ret' = [op |-> "clear_history",
               value |-> [success |-> FALSE,
                          error |-> "Conversation not found"]]
    /\ UNCHANGED <<indexerVars, ragVars, uuid_count, published, model_calls>>

ClearAllConversations ==
    /\ Idle
    /\ conversations' = <<>>
    /\ ret' = [op |-> "clear_history",
               value |-> [success |-> TRUE,
                          message |-> <<"Cleared conversations",
                                        Cardinality(DOMAIN conversations)>>]]
    /\ UNCHANGED <<indexerVars, response_cache, is_initialized, uuid_count, published, model_calls>>

clear_history(conversation_id) ==
    IF conversation_id = None
    THEN ClearAllConversations
    ELSE \/ ClearOneConversation(conversation_id[1])
         \/ ClearUnknownConversation(conversation_id[1])

\* ----------------------------------------------------------- the system
\* IndexerService.__init__ and RAGService.__init__.  storage/indices may
\* already hold index files; nothing else is on disk.
Init ==
    /\ active_tasks = <<>>
    /\ current_task = None
    /\ coro = <<>>
    /\ running = None
    /\ metadata_dir = <<>>
    /\ indices_dir \in SUBSET IndexFiles
    /\ repos_dir = {}
    /\ conversations = <<>>
    /\ response_cache = <<>>
    /\ is_initialized = FALSE
    /\ uuid_count = 0
    /\ published = <<>>
    /\ model_calls = <<>>
    /\ ret = [op |-> "init"]

\* Requests the clients of the indexing workflow send to the chat service.
ClientConversation == <<"client", 1>>
ChatQuery == <<"H", "i", " ">>

\* The indexing workflow: every operation of IndexerService and the steps
\* of its coroutines.
Next ==
    \/ \E u \in Urls : start_indexing(u)
    \/ \E task_id \in PollIds : get_indexing_status(task_id)
    \/ clear_index
    \/ get_index_stats
    \/ \E t \in DOMAIN coro : TaskBegin(t)
    \/ \E t \in DOMAIN coro : TaskCloneOk(t)
    \/ \E t \in DOMAIN coro : TaskCloneFails(t)
    \/ \E t \in DOMAIN coro : TaskDiscoverOk(t)
    \/ \E t \in DOMAIN coro : TaskDiscoverFails(t)
    \/ \E t \in DOMAIN coro : TaskSkipDuplicate(t)
    \/ \E t \in DOMAIN coro : TaskProcessFile(t)
    \/ \E t \in DOMAIN coro : TaskSaveOk(t)
    \/ \E t \in DOMAIN coro : TaskSaveOpenFails(t)
    \/ \E t \in DOMAIN coro : TaskSaveWriteFails(t)
    \/ \E t \in DOMAIN coro : TaskComplete(t)

Spec == Init /\ [][Next]_vars

\* The indexing workflow of one repository next to a chat client.
NextService ==
    \/ start_indexing(UrlPlain)
    \/ clear_index
    \/ get_index_stats
    \/ \E t \in DOMAIN coro : TaskBegin(t)
    \/ \E t \in DOMAIN coro : TaskCloneOk(t)
    \/ \E t \in DOMAIN coro : TaskCloneFails(t)
    \/ \E t \in DOMAIN coro : TaskDiscoverOk(t)
    \/ \E t \in DOMAIN coro : TaskDiscoverFails(t)
    \/ \E t \in DOMAIN coro : TaskSkipDuplicate(t)
    \/ \E t \in DOMAIN coro : TaskProcessFile(t)
    \/ \E t \in DOMAIN coro : TaskSaveOk(t)
    \/ \E t \in DOMAIN coro : TaskSaveOpenFails(t)
    \/ \E t \in DOMAIN coro : TaskSaveWriteFails(t)
    \/ \E t \in DOMAIN coro : TaskComplete(t)
    \/ query(ChatQuery, None, Some(ClientConversation))
    \/ clear_history(Some(ClientConversation))

SpecService == Init /\ [][NextService]_vars

\* _save_index_metadata on every list of entries.
NextSave ==
    \E processed_files \in EntryLists :
       _save_index_metadata(Uuid(1), processed_files, UrlPlain)

SpecSave == Init /\ [][NextSave]_vars

\* Indexing runs of one repository whose working copy holds files that
\* index_file skips.
NextFiles ==
    \/ start_indexing(UrlPlain)
    \/ \E t \in DOMAIN coro : TaskBegin(t)
    \/ \E t \in DOMAIN coro : TaskCloneOk(t)
    \/ \E t \in DOMAIN coro : TaskCloneFails(t)
    \/ \E t \in DOMAIN coro : TaskDiscoverAny(t)
    \/ \E t \in DOMAIN coro : TaskSkipDuplicate(t)
    \/ \E t \in DOMAIN coro : TaskProcessFile(t)
    \/ \E t \in DOMAIN coro : TaskSaveOk(t)
    \/ \E t \in DOMAIN coro : TaskComplete(t)

SpecFiles == Init /\ [][NextFiles]_vars

\* The chat service next to a storage directory that an earlier run of
\* the indexer may have filled: a snapshot listing config.py and the
\* working copy it was made from.
EarlierTask == Uuid(0)
EarlierSnapshot ==
    MetadataFile(EarlierTask,
                 IndexMetadata(EarlierTask,
                               <<FileIndexEntry("config.py", 1)>>, UrlPlain))
InitRag ==
    /\ active_tasks = <<>>
    /\ current_task = None
    /\ coro = <<>>
    /\ running = None
    /\ metadata_dir \in {<<>>, <<EarlierSnapshot>>}
    /\ indices_dir = {}
    /\ repos_dir \in {{}, {WebRagService}}
    /\ conversations = <<>>
    /\ response_cache = <<>>
    /\ is_initialized = FALSE
    /\ uuid_count = 0
    /\ published = <<>>
    /\ model_calls = <<>>
    /\ ret = [op |-> "init"]

\* The questions of the chat client, two spellings of the first one.
DefaultsQuery == <<"default", " ", "port">>
DefaultsQueryShouted == <<" ", "Default", " ", "Port", " ">>
ConfigQuery == <<"default", " ", "config">>
RagQueries == {DefaultsQuery, DefaultsQueryShouted, ConfigQuery}
RagMaxSources == {None, Some(5)}
RagConversations == {None, Some(ClientConversation)}

\* The client asks a new question only while fewer than MaxCached answers
\* are cached.
NextRag ==
    \/ initialize
    \/ \E query_text \in RagQueries, max_sources \in RagMaxSources,
          conversation_id \in RagConversations :
          /\ \/ CachedAt(CacheKey(query_text, max_sources)) # {}
             \/ Len(response_cache) < MaxCached
          /\ query(query_text, max_sources, conversation_id)
    \/ \E conversation_id \in RagConversations :
          clear_history(conversation_id)

SpecRag == InitRag /\ [][NextRag]_vars

\* A chat client that fills the response cache: its questions are
\* numbered in the order in which it first asks them.  It asks the next
\* new question or one the cache has lost, or asks the oldest or the
\* newest cached question again.
QuestionText(n) == <<"Q", ToString(n)>>
Questions == 1..(cache_max_size + MaxEvictions)
KeyOfQuestion == [n \in Questions |-> CacheKey(QuestionText(n), None)]
QuestionOf(key) == CHOOSE n \in Questions : KeyOfQuestion[n] = key
NewestAsked ==
    IF response_cache = <<>> THEN 0
    ELSE LET asked == {QuestionOf(response_cache[k].key) :
                         k \in 1..Len(response_cache)}
         IN  CHOOSE n \in asked : \A m \in asked : m <= n
MissesSoFar ==
    IF ClientConversation \in DOMAIN conversations
    THEN Len(conversations[ClientConversation]) \div 2 ELSE 0

NextCache ==
    \/ /\ MissesSoFar < cache_max_size + MaxEvictions
       /\ \E n \in Questions \cap (1..(NewestAsked + 1)) :
             /\ CachedAt(KeyOfQuestion[n]) = {}
             /\ query(QuestionText(n), None, Some(ClientConversation))
    \/ \E k \in {1, Len(response_cache)} :
          /\ k \in 1..Len(response_cache)
          /\ query(QuestionText(QuestionOf(response_cache[k].key)), None,
                   Some(ClientConversation))

SpecCache == Init /\ [][NextCache]_vars

\* _retrieve_relevant_content called on its own.
RetrieveCall(query_text) ==
    /\ Idle
    /\ ret' = [op |-> "_retrieve_relevant_content",
               query |-> query_text,
               value |-> _retrieve_relevant_content(query_text)]
    /\ UNCHANGED <<indexerVars, ragVars, uuid_count, published, model_calls>>

\* The retrieval over the snapshot of an earlier run: any list of up to
\* MaxSnapshot distinct small text files, in any order, with the working
\* copy still in place or removed since.
RECURSIVE Distinct(_)
Distinct(paths) ==
    \/ paths = <<>>
    \/ /\ \A k \in 2..Len(paths) : paths[k] # Head(paths)
       /\ Distinct(Tail(paths))
DocSnapshot(paths) ==
    MetadataFile(EarlierTask,
                 IndexMetadata(EarlierTask,
                               [k \in 1..Len(paths) |->
                                  FileIndexEntry(paths[k], k)],
                               UrlPlain))
InitRetrieve ==
    /\ active_tasks = <<>>
    /\ current_task = None
    /\ coro = <<>>
    /\ running = None
    /\ metadata_dir \in {<<DocSnapshot(paths)>> :
                            paths \in {l \in SeqsUpTo(DocPaths, MaxSnapshot) :
                                         Distinct(l)}}
    /\ indices_dir = {}
    /\ repos_dir \in {{}, {WebRagService}}
    /\ conversations = <<>>
    /\ response_cache = <<>>
    /\ is_initialized = FALSE
    /\ uuid_count = 0
    /\ published = <<>>
    /\ model_calls = <<>>
    /\ ret = [op |-> "init"]

MainConfigQuery == <<"main", " ", "config">>
RetrieveQueries == {DefaultsQuery, MainConfigQuery, W("x"), W("notes"), <<>>}

NextRetrieve == \E query_text \in RetrieveQueries : RetrieveCall(query_text)

SpecRetrieve == InitRetrieve /\ [][NextRetrieve]_vars

\* Any step of the coroutine of task t.
TaskStep(t) ==
    \/ TaskBegin(t)
    \/ TaskCloneOk(t)
    \/ TaskCloneFails(t)
    \/ TaskDiscoverOk(t)
    \/ TaskDiscoverFails(t)
    \/ TaskSkipDuplicate(t)
    \/ TaskProcessFile(t)
    \/ TaskSaveOk(t)
    \/ TaskSaveOpenFails(t)
    \/ TaskSaveWriteFails(t)
    \/ TaskComplete(t)

\* Indexing requests and the coroutines they schedule, under the event
\* loop's scheduling: a coroutine that is ready to run is run (the loop
\* takes its ready callbacks in turn, and git clone returns).
NextLive ==
    \/ \E u \in Urls : start_indexing(u)
    \/ \E t \in DOMAIN coro : TaskBegin(t)
    \/ \E t \in DOMAIN coro : TaskCloneOk(t)
    \/ \E t \in DOMAIN coro : TaskCloneFails(t)
    \/ \E t \in DOMAIN coro : TaskDiscoverOk(t)
    \/ \E t \in DOMAIN coro : TaskDiscoverFails(t)
    \/ \E t \in DOMAIN coro : TaskSkipDuplicate(t)
    \/ \E t \in DOMAIN coro : TaskProcessFile(t)
    \/ \E t \in DOMAIN coro : TaskSaveOk(t)
    \/ \E t \in DOMAIN coro : TaskSaveOpenFails(t)
    \/ \E t \in DOMAIN coro : TaskSaveWriteFails(t)
    \/ \E t \in DOMAIN coro : TaskComplete(t)

SpecLive ==
    /\ Init
    /\ [][NextLive]_vars
    /\ \A n \in 1..MaxTasks : WF_vars(TaskStep(Uuid(n)))

\* The steps of the coroutine of task t in which nothing raises.
TaskStepOk(t) ==
    \/ TaskBegin(t)
    \/ TaskCloneOk(t)
    \/ TaskDiscoverOk(t)
    \/ TaskSkipDuplicate(t)
    \/ TaskProcessFile(t)
    \/ TaskSaveOk(t)
    \/ TaskComplete(t)

\* Indexing runs of one repository in which no step raises, next to a
\* client that clears the index and reads the statistics at any time,
\* under the event loop's scheduling.
NextClear ==
    \/ start_indexing(UrlPlain)
    \/ clear_index
    \/ get_index_stats
    \/ \E t \in DOMAIN coro : TaskBegin(t)
    \/ \E t \in DOMAIN coro : TaskCloneOk(t)
    \/ \E t \in DOMAIN coro : TaskDiscoverOk(t)
    \/ \E t \in DOMAIN coro : TaskSkipDuplicate(t)
    \/ \E t \in DOMAIN coro : TaskProcessFile(t)
    \/ \E t \in DOMAIN coro : TaskSaveOk(t)
    \/ \E t \in DOMAIN coro : TaskComplete(t)

SpecClear ==
    /\ Init
    /\ [][NextClear]_vars
    /\ \A n \in 1..MaxTasks : WF_vars(TaskStepOk(Uuid(n)))

\* index_file called on its own, on a file of the working copy.
IndexFileCall(p) ==
    /\ Idle
    /\ ret' = [op |-> "index_file",
               file_path |-> p,
               value |-> index_file(p, TRUE, 1)]
    /\ UNCHANGED <<indexerVars, ragVars, uuid_count, published, model_calls>>

\* index_file on text files of many lengths.
NextChunks == \E p \in TextFiles : IndexFileCall(p)

SpecChunks == Init /\ [][NextChunks]_vars

\* ================================================================ claims
Tasks == DOMAIN active_tasks
StatusOf(t) == active_tasks[t].status
PercentageOf(t) == active_tasks[t].progress.percentage

\* A parseable snapshot with this repository URL is in storage/metadata.
SnapshotFor(u) ==
    \E k \in 1..Len(metadata_dir) :
       /\ metadata_dir[k].parseable
       /\ metadata_dir[k].metadata[1].repository_url = u

\* The step just taken was start_indexing for u.
StartedNow(u) ==
    /\ ret'.op = "start_indexing"
    /\ ret'.repository_url = u

SyntheticHandle(r) ==
    /\ r.task_id = ALREADY_INDEXED
    /\ r.status = COMPLETED
    /\ r.estimated_time = 0

\* C1 as stated: whenever start-indexing is called with a URL it was called
\* with before (a task for that URL is registered), the call returns the
\* synthetic completed handle and the task registry is unchanged.
C1_SecondStartIsSynthetic ==
    [][\A u \in Urls :
         (StartedNow(u) /\ \E t \in Tasks : active_tasks[t].repository_url = u)
           => (SyntheticHandle(ret') /\ active_tasks' = active_tasks)]_vars

\* C1 amended: start-indexing returns the synthetic completed handle (id
\* 'already-indexed', COMPLETED, estimated time 0) and leaves the registry
\* unchanged exactly when a parseable snapshot with the same repository URL
\* is in the store; otherwise it registers one new PENDING task, also when
\* an earlier task for that URL is pending, running or failed.
C1_SyntheticIffSnapshot ==
    [][\A u \in Urls :
         StartedNow(u) =>
           IF SnapshotFor(u)
           THEN /\ SyntheticHandle(ret')
                /\ active_tasks' = active_tasks
                /\ coro' = coro
           ELSE /\ ret'.task_id \notin Tasks
                /\ ret'.status = PENDING
                /\ DOMAIN active_tasks' = Tasks \cup {ret'.task_id}
                /\ active_tasks'[ret'.task_id].status = PENDING
                /\ \A t \in Tasks : active_tasks'[t] = active_tasks[t]]_vars

\* C1 witness: the second start for a URL whose first task has completed
\* returned the synthetic handle, next to an untouched registry entry.
C1_Witness ==
    /\ ret.op = "start_indexing"
    /\ SyntheticHandle(ret)
    /\ \E t \in Tasks : /\ active_tasks[t].repository_url = ret.repository_url
                        /\ StatusOf(t) = COMPLETED

\* C2: a registered task's status only moves PENDING -> RUNNING ->
\* COMPLETED or FAILED: a new task starts PENDING, no step moves a status
\* backward, COMPLETED and FAILED never change, no task is ever CANCELLED,
\* and no task leaves the registry.
C2_StatusMonotonic ==
    [][/\ Tasks \subseteq DOMAIN active_tasks'
       /\ \A t \in DOMAIN active_tasks' \ Tasks :
            active_tasks'[t].status = PENDING
       /\ \A t \in Tasks :
            \/ active_tasks'[t].status = StatusOf(t)
            \/ StatusOf(t) = PENDING /\ active_tasks'[t].status = RUNNING
            \/ /\ StatusOf(t) = RUNNING
               /\ active_tasks'[t].status \in {COMPLETED, FAILED}]_vars

\* C2 witness: one task has gone all the way to COMPLETED and another to
\* FAILED.
C2_Witness ==
    \E t1, t2 \in Tasks : StatusOf(t1) = COMPLETED /\ StatusOf(t2) = FAILED

\* C3 as stated: between two moments at which a status read can happen
\* (no coroutine owns the event loop), no task's percentage decreases, and
\* it stays within 0..100.
C3_PercentageNeverDecreases ==
    [][(Idle /\ Idle') =>
         \A t \in Tasks :
            /\ PctLeq(PercentageOf(t), active_tasks'[t].progress.percentage)
            /\ PctLeq(Pct(0), active_tasks'[t].progress.percentage)
            /\ PctLeq(active_tasks'[t].progress.percentage, Pct(100))]_vars

\* C4: a task at exactly 100 percent is COMPLETED; a PENDING or RUNNING
\* task is at 90 percent at most; a FAILED task is never at 100.
C4_HundredOnlyWhenCompleted ==
    \A t \in Tasks :
       /\ PctEq(PercentageOf(t), Pct(100)) => StatusOf(t) = COMPLETED
       /\ StatusOf(t) \in {PENDING, RUNNING}
            => PctLeq(PercentageOf(t), Pct(90))
       /\ StatusOf(t) = FAILED => ~PctEq(PercentageOf(t), Pct(100))

\* C4 witness: a COMPLETED task at 100 next to a RUNNING task that has
\* reached 90.
C4_Witness ==
    \E t1, t2 \in Tasks :
       /\ StatusOf(t1) = COMPLETED /\ PctEq(PercentageOf(t1), Pct(100))
       /\ StatusOf(t2) = RUNNING /\ PctEq(PercentageOf(t2), Pct(90))

\* C5: once the clone, the discovery or the snapshot write of a task has
\* raised, the task is FAILED with error equal to the exception text,
\* completed_at set and result None, and a get-status for it returns a
\* view with exactly these values instead of failing.  (index_file catches
\* every exception itself, so the file loop has nothing to raise.)
C5_FailureIsRecorded ==
    \A t \in DOMAIN coro :
       coro[t].exc # NoneStr =>
         /\ StatusOf(t) = FAILED
         /\ active_tasks[t].error = coro[t].exc
         /\ active_tasks[t].completed_at = SetTime
         /\ active_tasks[t].result = None
         /\ (ret.op = "get_indexing_status" /\ ret.task_id = t) =>
              /\ ret.value # None
              /\ ret.value[1].status = FAILED
              /\ ret.value[1].message = "Indexing failed"
              /\ ret.value[1].error = coro[t].exc
              /\ ret.value[1].completed_at = SetTime
              /\ ret.value[1].result = None

\* C5 witness: a status read of a task whose snapshot write raised after
\* its files had been processed.
C5_Witness ==
    /\ ret.op = "get_indexing_status"
    /\ ret.value # None
    /\ ret.value[1].status = FAILED
    /\ ret.value[1].error = "write failed"
    /\ ret.value[1].progress.bytes_processed > 0

\* C6 as stated: a FAILED task has no snapshot file under its task id, and
\* every file of the snapshot store is complete (parseable).
C6_NoSnapshotAfterFailure ==
    /\ \A t \in Tasks :
         StatusOf(t) = FAILED =>
           \A k \in 1..Len(metadata_dir) : metadata_dir[k].name # t
    /\ \A k \in 1..Len(metadata_dir) : metadata_dir[k].parseable

\* C7 as stated: right after start-indexing has returned a new handle the
\* registered task is RUNNING, and no get-status ever returns PENDING.
C7_RunningRightAfterStart ==
    /\ (ret.op = "start_indexing" /\ ret.task_id # ALREADY_INDEXED)
         => StatusOf(ret.task_id) = RUNNING
    /\ (ret.op = "get_indexing_status" /\ ret.value # None)
         => /\ ret.value[1].status # PENDING
            /\ ret.value[1].status = RUNNING
                 => ret.value[1].message = "Indexing in progress"

\* C8: a get-status step changes nothing of the registry, the task records,
\* the coroutines or the stores; for a registered id it returns that
\* task's current status, progress, error and result, for any other id
\* it returns None.
C8_GetStatusIsPureRead ==
    [][\A id \in PollIds :
         (ret'.op = "get_indexing_status" /\ ret'.task_id = id) =>
           /\ UNCHANGED <<active_tasks, current_task, coro, running,
                          metadata_dir, indices_dir, repos_dir>>
           /\ IF id \in Tasks
              THEN /\ ret'.value # None
                   /\ ret'.value[1].task_id = id
                   /\ ret'.value[1].status = StatusOf(id)
                   /\ ret'.value[1].progress = active_tasks[id].progress
                   /\ ret'.value[1].percentage = PercentageOf(id)
                   /\ ret'.value[1].error = active_tasks[id].error
                   /\ ret'.value[1].result = active_tasks[id].result
              ELSE ret'.value = None]_vars

\* C8 witness: a read of a task in the middle of its file loop, with a
\* snapshot of another task in the store.
C8_Witness ==
    /\ ret.op = "get_indexing_status"
    /\ ret.value # None
    /\ ret.value[1].status = RUNNING
    /\ ret.value[1].progress.files_processed = 1
    /\ ret.value[1].progress.total_files = 2
    /\ metadata_dir # <<>>

\* C8 witness for the other branch: a read of an id the registry does not
\* hold, while the registry is not empty.
C8_WitnessNotFound ==
    /\ ret.op = "get_indexing_status"
    /\ ret.value = None
    /\ Tasks # {}

\* C9: a clear-index step leaves the task registry, the coroutines and the
\* conversations unchanged; when it reports success every file of
\* storage/indices and storage/metadata is gone and get-stats then says
\* not indexed; on an empty store it reports success with zero files
\* removed and zero bytes freed.
C9_ClearIndexFrame ==
    [][ret'.op = "clear_index" =>
         /\ active_tasks' = active_tasks
         /\ current_task' = current_task
         /\ coro' = coro
         /\ conversations' = conversations
         /\ ret'.value.success =>
              /\ metadata_dir' = <<>>
              /\ indices_dir' = {}
              /\ ~(IndexStats.is_indexed)'
         /\ (metadata_dir = <<>> /\ indices_dir = {}) =>
              /\ ret'.value.success
              /\ ret'.value.files_removed = 0
              /\ ret'.value.space_freed = 0]_vars

\* C9 witness: a successful clear has emptied the store although a task
\* had completed (and written its snapshot), with a conversation in the
\* conversation store.
C9_Witness ==
    /\ ret.op = "clear_index"
    /\ ret.value.success
    /\ metadata_dir = <<>>
    /\ \E t \in Tasks : StatusOf(t) = COMPLETED
    /\ DOMAIN conversations # {}

\* C10 as stated: a clear-index that has deleted index files reports them,
\* also when a later deletion fails: its result carries files_removed and
\* space_freed for the deletions that happened.
C10_PartialClearReportsWork ==
    [][(ret'.op = "clear_index" /\ indices_dir' # indices_dir) =>
         /\ "files_removed" \in DOMAIN ret'.value
         /\ ret'.value.files_removed = Cardinality(indices_dir \ indices_dir')
         /\ "space_freed" \in DOMAIN ret'.value
         /\ ret'.value.space_freed
              = SizeOfIndexFiles(indices_dir \ indices_dir')]_vars

\* C11: get-stats never fails and says is_indexed = FALSE only when the
\* snapshot store holds no file; when the most recently modified snapshot
\* file cannot be parsed it says is_indexed = TRUE with file_count 0, no
\* vectors and no timestamps, whatever older snapshots hold.
C11_CorruptSnapshotStillIndexed ==
    ret.op = "get_index_stats" =>
      /\ ret.value.is_indexed \in BOOLEAN
      /\ ret.value.is_indexed <=> metadata_dir # <<>>
      /\ (metadata_dir # <<>> /\ ~metadata_dir[Len(metadata_dir)].parseable)
           => /\ ret.value.is_indexed
              /\ ret.value.file_count = 0
              /\ ret.value.vector_count = 0
              /\ ret.value.last_updated = NoneStr

\* C11 witness: get-stats has answered while the latest snapshot file is a
\* truncated one and an older, complete snapshot lists a file.
C11_Witness ==
    /\ ret.op = "get_index_stats"
    /\ Len(metadata_dir) = 2
    /\ ~metadata_dir[2].parseable
    /\ metadata_dir[1].parseable
    /\ metadata_dir[1].metadata[1].file_count = 1

\* The file_path values of a list of entries.
PathsOf(entries) == {entries[k].file_path : k \in 1..Len(entries)}

\* C12: every persisted snapshot has at most one entry per file_path and a
\* file_count equal to its number of entries; a snapshot written from a
\* list of entries has exactly the paths of the list, and the entry kept
\* for a path is one of the list's entries for it with the greatest
\* indexed_at.
C12_SnapshotDedup ==
    /\ [](\A k \in 1..Len(metadata_dir) :
            metadata_dir[k].parseable =>
              LET snapshot == metadata_dir[k].metadata[1]
              IN  /\ snapshot.file_count = Len(snapshot.files)
                  /\ \A i, j \in 1..Len(snapshot.files) :
                        snapshot.files[i].file_path
                          = snapshot.files[j].file_path => i = j)
    /\ [][ret'.op = "_save_index_metadata" =>
            LET produced == ret'.processed_files
                snapshot == metadata_dir'[Len(metadata_dir')].metadata[1]
            IN  /\ metadata_dir'[Len(metadata_dir')].name = ret'.task_id
                /\ PathsOf(snapshot.files) = PathsOf(produced)
                /\ \A k \in 1..Len(snapshot.files) :
                      /\ \E j \in 1..Len(produced) :
                            produced[j] = snapshot.files[k]
                      /\ \A j \in 1..Len(produced) :
                            produced[j].file_path = snapshot.files[k].file_path
                              => produced[j].indexed_at
                                   <= snapshot.files[k].indexed_at]_vars

\* C12 witness: a snapshot written from three entries for one path, the
\* latest of them in the middle of the list, holds that middle entry only.
C12_Witness ==
    /\ ret.op = "_save_index_metadata"
    /\ ret.processed_files = <<FileIndexEntry("config.py", 1),
                               FileIndexEntry("config.py", 3),
                               FileIndexEntry("config.py", 2)>>
    /\ metadata_dir[Len(metadata_dir)].metadata[1].files
         = <<FileIndexEntry("config.py", 3)>>

\* A file the claim C13 is about: larger than 1 MiB, not decodable as
\* text, or failing on read.
Skipped(p) ==
    \/ RepoFile(p).st_size > 1024 * 1024
    \/ ~RepoFile(p).decodable
    \/ ~RepoFile(p).readable

\* The snapshot file a task has written.
SnapshotOf(dir, t) ==
    dir[CHOOSE k \in 1..Len(dir) : dir[k].name = t].metadata[1]

\* C13: the step of the file loop that handles a discovered file which is
\* oversized, undecodable or unreadable (or whose working copy is gone)
\* adds no entry and no bytes and leaves the task RUNNING without an
\* error; the snapshot the task then writes has no entry for such a file;
\* and the step that follows the write makes the task COMPLETED with no
\* error and a result that counts exactly the snapshot's entries and bytes.
C13_SkippedFilesLeaveNoTrace ==
    [][\A t \in DOMAIN coro :
         LET c == coro[t]
             url == active_tasks[t].repository_url
         IN  /\ (/\ c.pc = "loop"
                 /\ coro'[t].i = c.i + 1
                 /\ c.files_to_process[c.i + 1] \notin c.processed_file_paths
                 /\ \/ Skipped(c.files_to_process[c.i + 1])
                    \/ RepoName(url) \notin repos_dir)
                => /\ coro'[t].processed_files = c.processed_files
                   /\ coro'[t].total_bytes = c.total_bytes
                   /\ active_tasks'[t].status = RUNNING
                   /\ active_tasks'[t].error = NoneStr
                   /\ active_tasks'[t].progress.bytes_processed
                        = c.total_bytes
             /\ (c.pc = "loop" /\ coro'[t].pc = "complete")
                => /\ \A k \in 1..Len(c.files_to_process) :
                        Skipped(c.files_to_process[k]) =>
                          c.files_to_process[k]
                            \notin PathsOf(SnapshotOf(metadata_dir', t).files)
                   /\ SnapshotOf(metadata_dir', t).files = c.processed_files
             /\ (c.pc = "complete" /\ coro'[t].pc = "done")
                => /\ active_tasks'[t].status = COMPLETED
                   /\ active_tasks'[t].error = NoneStr
                   /\ active_tasks'[t].result # None
                   /\ active_tasks'[t].result[1].files_processed
                        = SnapshotOf(metadata_dir, t).file_count
                   /\ active_tasks'[t].result[1].total_bytes
                        = SumSeq([k \in 1..Len(c.processed_files) |->
                                   c.processed_files[k].size])
                   /\ \A k \in 1..Len(c.processed_files) :
                        ~Skipped(c.processed_files[k].file_path)]_vars

\* C13 witness: a task has COMPLETED over two discovered files of which the
\* second, an unreadable one, was skipped: one file and its 14 bytes are in
\* the result and in the snapshot, and no error is recorded.
C13_Witness ==
    \E t \in Tasks :
       /\ StatusOf(t) = COMPLETED
       /\ active_tasks[t].error = NoneStr
       /\ active_tasks[t].progress.total_files = 2
       /\ active_tasks[t].progress.current_file = "locked.py"
       /\ active_tasks[t].result[1].files_processed = 1
       /\ active_tasks[t].result[1].total_bytes = 14
       /\ PathsOf(SnapshotOf(metadata_dir, t).files) = {"config.py"}

\* C14 as stated: every progress update of a task is followed by a call of
\* the publish hook with the task id and the progress snapshot: a task
\* that has been updated (its message is set) has a published call
\* carrying its current message and progress.
C14_EveryUpdateIsPublished ==
    \A t \in Tasks :
       active_tasks[t].message # NoneStr =>
         \E k \in 1..Len(published) :
            /\ published[k].task_id = t
            /\ published[k].message = active_tasks[t].message
            /\ published[k].progress = active_tasks[t].progress

\* The cache key of the request of the query that has just returned.
KeyOfRequest(r) == CacheKey(r.request.query, r.request.max_sources)

\* C15: a query that misses stores exactly the response it returns under
\* its normalized key; nothing but a missing query changes the cache; and
\* a query whose normalized key is cached returns exactly the stored
\* response, without calling the engine and without changing any state.
C15_SameKeyReturnsCached ==
    [][/\ response_cache' # response_cache
            => ret'.op = "query" /\ CachedAt(KeyOfRequest(ret')) = {}
       /\ ret'.op = "query" =>
            IF CachedAt(KeyOfRequest(ret')) = {}
            THEN response_cache' =
                   Append(response_cache, [key |-> KeyOfRequest(ret'),
                                           response |-> ret'.value])
            ELSE /\ \A k \in CachedAt(KeyOfRequest(ret')) :
                      ret'.value = response_cache[k].response
                 /\ model_calls' = model_calls
                 /\ UNCHANGED <<conversations, response_cache,
                                is_initialized, uuid_count, metadata_dir,
                                repos_dir>>]_vars

\* C15 witness: the question asked in another spelling (upper case, outer
\* blanks, max_sources 5 where the first call gave none) and without a
\* conversation id has been answered from the cache with the response the
\* engine produced for the first call: one engine call only.
C15_Witness ==
    /\ ret.op = "query"
    /\ ret.request.query = DefaultsQueryShouted
    /\ ret.request.max_sources = Some(5)
    /\ ret.request.conversation_id = None
    /\ ret.value.conversation_id = ClientConversation
    /\ ret.value.model = "codellama-7b"
    /\ Len(model_calls) = 1
    /\ model_calls[1].query = DefaultsQuery
    /\ Len(response_cache) = 1

\* C16: the response cache never holds more than cache_max_size (100)
\* entries and no key twice; a query that hits leaves the cache as it is,
\* order included; a query that misses appends its entry, and when the
\* cache is full it first removes exactly the earliest-inserted entry.
C16_CacheIsBoundedFifo ==
    /\ [](/\ Len(response_cache) <= cache_max_size
          /\ \A i, j \in 1..Len(response_cache) :
                response_cache[i].key = response_cache[j].key => i = j)
    /\ [][ret'.op = "query" =>
            LET entry == [key |-> KeyOfRequest(ret'), response |-> ret'.value]
            IN  IF CachedAt(KeyOfRequest(ret')) # {}
                THEN response_cache' = response_cache
                ELSE IF Len(response_cache) = cache_max_size
                THEN response_cache' = Append(Tail(response_cache), entry)
                ELSE response_cache' = Append(response_cache, entry)]_vars

\* C16 witness: the full cache after two evictions, its first two
\* questions gone and the first one asked again (so that it is the newest
\* entry), right after a hit on the entry that is now the oldest.
C16_Witness ==
    /\ Len(response_cache) = cache_max_size
    /\ response_cache[1].key = CacheKey(QuestionText(3), None)
    /\ response_cache[cache_max_size].key = CacheKey(QuestionText(1), None)
    /\ ret.op = "query"
    /\ ret.request.query = QuestionText(3)

EngineCalled == Len(model_calls') = Len(model_calls) + 1
LastCall == model_calls'[Len(model_calls')]

C20_DefaultNoteAppended ==
    [][(/\ ret'.op = "query"
        /\ EngineCalled
        /\ ~LastCall.raised
        /\ IsIn(W("default"), LowerText(ret'.request.query))
        /\ \E k \in 1..Len(ret'.value.sources) :
              IsIn(<<"default", ":", " ", "8080">>,
                   ret'.value.sources[k].content)
        /\ ~IsIn(W("8080"), LastCall.text))
         => IsIn(W("8080"), ret'.value.response)]_vars
\* The files of the snapshot the retrieval reads and their positions.
LatestFiles == metadata_dir[Len(metadata_dir)].metadata[1].files
PositionOf(src) ==
    CHOOSE k \in 1..Len(LatestFiles) :
       PathTokens(LatestFiles[k].file_path) = src.file
\* The total score of the snapshot file a returned source stands for.
TotalScore(src, query_text) ==
    FileScore(LatestFiles[PositionOf(src)],
              SplitWords(LowerText(query_text), <<>>, {}))

C22_CloneFailureIsIsolated ==
    [][\A t \in DOMAIN coro :
         (coro[t].pc = "loop" /\ coro'[t].pc = "complete") =>
           LET discovered == {coro[t].files_to_process[k] :
                                k \in 1..Len(coro[t].files_to_process)}
               indexable == {p \in discovered : ~Skipped(p)}
           IN  /\ PathsOf(SnapshotOf(metadata_dir', t).files) = indexable
               /\ active_tasks'[t].progress.bytes_processed
                    = SumSeq([k \in 1..Len(coro[t].processed_files) |->
                               coro[t].processed_files[k].size])
               /\ \A p \in indexable :
                     \E k \in 1..Len(coro[t].processed_files) :
                        coro[t].processed_files[k].file_path = p]_vars

\* A complete snapshot file named after the task is in the store.
HasSnapshot(dir, t) ==
    \E k \in 1..Len(dir) : dir[k].name = t /\ dir[k].parseable

\* C23: the step that makes a task COMPLETED finds a complete snapshot
\* keyed by the task id already in the store, written by an earlier step,
\* and gives the task a result whose files_processed is the snapshot's
\* file_count and whose total_bytes is the sum of the sizes of the
\* snapshot's entries; the snapshot of a COMPLETED task stays as it is
\* until a clear-index removes it.
C23_SnapshotBeforeCompleted ==
    [][\A t \in Tasks :
         /\ (StatusOf(t) # COMPLETED /\ active_tasks'[t].status = COMPLETED)
              => /\ HasSnapshot(metadata_dir, t)
                 /\ metadata_dir' = metadata_dir
                 /\ active_tasks'[t].result # None
                 /\ LET snapshot == SnapshotOf(metadata_dir, t)
                        result == active_tasks'[t].result[1]
                    IN  /\ result.files_processed = snapshot.file_count
                        /\ result.files_processed = Len(snapshot.files)
                        /\ result.total_bytes
                             = SumSeq([k \in 1..Len(snapshot.files) |->
                                        snapshot.files[k].size])
         /\ (StatusOf(t) = COMPLETED /\ HasSnapshot(metadata_dir, t)
               /\ ret'.op # "clear_index")
              => /\ HasSnapshot(metadata_dir', t)
                 /\ SnapshotOf(metadata_dir', t) = SnapshotOf(metadata_dir, t)
                 /\ active_tasks'[t].result = active_tasks[t].result]_vars

\* C23 witness: a status read shows a task COMPLETED with one file and 14
\* bytes in its result while its snapshot, holding that one entry, is in
\* the store next to the snapshot of another task.
C23_Witness ==
    /\ ret.op = "get_indexing_status"
    /\ ret.value # None
    /\ ret.value[1].status = COMPLETED
    /\ ret.value[1].result[1].files_processed = 1
    /\ ret.value[1].result[1].total_bytes = 14
    /\ HasSnapshot(metadata_dir, ret.task_id)
    /\ SnapshotOf(metadata_dir, ret.task_id).file_count = 1
    /\ Len(metadata_dir) = 2

\* C24 as stated: the chunk_count of the entry index_file builds for a
\* file is ceil(length / 512), length being the number of characters of
\* the decoded content: the least n with n * 512 >= length, which is 0
\* for an empty file and length / 512 for an exact multiple of 512.
C24_ChunkCountIsCeiling ==
    (ret.op = "index_file" /\ ret.value # None) =>
      LET length == RepoFile(ret.file_path).chars
          chunk_count == ret.value[1].chunk_count
      IN  /\ chunk_count * 512 >= length
          /\ chunk_count > 0 => (chunk_count - 1) * 512 < length

\* C25: under fair scheduling of the coroutines every registered task
\* eventually is COMPLETED or FAILED, whatever number of files was
\* discovered and whichever of the clone, the discovery and the snapshot
\* write raises.
C25_EveryTaskTerminates ==
    \A n \in 1..MaxTasks :
       (Uuid(n) \in Tasks)
         ~> (Uuid(n) \in Tasks /\ StatusOf(Uuid(n)) \in {COMPLETED, FAILED})

\* C25 witness: a task that discovered no file is COMPLETED and a task
\* whose snapshot write raised after it had indexed a file is FAILED.
C25_Witness ==
    \E t1, t2 \in Tasks :
       /\ StatusOf(t1) = COMPLETED
       /\ active_tasks[t1].progress.total_files = 0
       /\ StatusOf(t2) = FAILED
       /\ active_tasks[t2].error = "write failed"
       /\ active_tasks[t2].progress.bytes_processed > 0

\* C26: every task record is consistent with its status: PENDING has no
\* started_at, completed_at, error or result; RUNNING has started_at and
\* none of the other three; COMPLETED has started_at, completed_at and a
\* result and no error; FAILED has started_at, completed_at and an error
\* and no result; and no record has any other status.
C26_TaskRecordConsistent ==
    \A t \in Tasks :
       LET task == active_tasks[t]
           started == task.started_at # NoneStr
           completed == task.completed_at # NoneStr
           failed == task.error # NoneStr
           summed == task.result # None
       IN  /\ task.status \in {PENDING, RUNNING, COMPLETED, FAILED}
           /\ task.status = PENDING =>
                 ~started /\ ~completed /\ ~failed /\ ~summed
           /\ task.status = RUNNING =>
                 started /\ ~completed /\ ~failed /\ ~summed
           /\ task.status = COMPLETED =>
                 started /\ completed /\ ~failed /\ summed
           /\ task.status = FAILED =>
                 started /\ completed /\ failed /\ ~summed

\* C26 witness: a task still PENDING, with none of the four fields set,
\* next to a task that is FAILED after its discovery raised, with
\* started_at, completed_at and error set and no result.
C26_Witness ==
    \E t1, t2 \in Tasks :
       /\ StatusOf(t1) = PENDING
       /\ active_tasks[t1].started_at = NoneStr
       /\ StatusOf(t2) = FAILED
       /\ active_tasks[t2].started_at = SetTime
       /\ active_tasks[t2].completed_at = SetTime
       /\ active_tasks[t2].error = "Unacceptable pattern"
       /\ active_tasks[t2].result = None

\* C27: every conversation of the store is non-empty, of even length, and
\* alternates user, assistant, user, assistant from its first message on.
C27_ConversationsAlternate ==
    \A id \in DOMAIN conversations :
       LET messages == conversations[id]
       IN  /\ Len(messages) > 0
           /\ Len(messages) % 2 = 0
           /\ \A k \in 1..Len(messages) :
                 messages[k].role = IF k % 2 = 1 THEN "user" ELSE "assistant"

\* C27 witness: the client's conversation holds two exchanges, the first
\* answered while the model was not loaded and the second by the engine,
\* and the last call was a cache hit that appended nothing to it.
C27_Witness ==
    /\ ClientConversation \in DOMAIN conversations
    /\ Len(conversations[ClientConversation]) = 4
    /\ conversations[ClientConversation][2].content = NotInitializedAnswer
    /\ conversations[ClientConversation][4].content # NotInitializedAnswer
    /\ is_initialized
    /\ ret.op = "query"
    /\ ret.value.response = NotInitializedAnswer

\* C28: a clear-index leaves the task records, the coroutines, the owner
\* of the event loop and the working copies as they are; a task that is
\* RUNNING when a clear-index returns goes on to COMPLETED when none of
\* its own steps raises; the step that completes a task finds its
\* snapshot in the store, so that get-stats then says indexed and the
\* existence check for the task's URL succeeds; and a start-indexing for a
\* URL whose snapshot is in the store returns the synthetic handle without
\* registering a task.
C28_ClearDoesNotStopRunningTask ==
    /\ [][ret'.op = "clear_index" =>
            UNCHANGED <<active_tasks, coro, running, repos_dir>>]_vars
    /\ [][\A t \in Tasks :
            (StatusOf(t) = RUNNING /\ active_tasks'[t].status = COMPLETED)
              => /\ HasSnapshot(metadata_dir', t)
                 /\ (IndexStats.is_indexed)'
                 /\ (_check_existing_repository(
                        active_tasks[t].repository_url) # {})']_vars
    /\ [][\A u \in Urls :
            (StartedNow(u) /\ SnapshotFor(u))
              => SyntheticHandle(ret') /\ active_tasks' = active_tasks]_vars
    /\ \A n \in 1..MaxTasks :
          (/\ Uuid(n) \in Tasks
           /\ StatusOf(Uuid(n)) = RUNNING
           /\ ret.op = "clear_index")
            ~> (Uuid(n) \in Tasks /\ StatusOf(Uuid(n)) = COMPLETED)

\* C28 witness: a start-indexing has just been short-circuited by the
\* snapshot of the second task, while the first task is COMPLETED and its
\* snapshot is gone: the index was cleared after the first task had
\* completed and the second, registered before that, wrote its snapshot
\* afterwards.
C28_Witness ==
    /\ ret.op = "start_indexing"
    /\ SyntheticHandle(ret)
    /\ Tasks = {Uuid(1), Uuid(2)}
    /\ StatusOf(Uuid(1)) = COMPLETED
    /\ StatusOf(Uuid(2)) = COMPLETED
    /\ ~HasSnapshot(metadata_dir, Uuid(1))
    /\ HasSnapshot(metadata_dir, Uuid(2))

\* C29: a clear-history and a clear-index leave the response cache as it
\* is, and a query whose normalized key is cached returns the stored
\* response and leaves every conversation as it is, also when the
\* conversation named in that response is no longer in the store.
C29_ClearsKeepCache ==
    [][/\ ret'.op \in {"clear_history", "clear_index"}
            => response_cache' = response_cache
       /\ (ret'.op = "query" /\ CachedAt(KeyOfRequest(ret')) # {})
            => /\ \A k \in CachedAt(KeyOfRequest(ret')) :
                     ret'.value = response_cache[k].response
               /\ conversations' = conversations
               /\ response_cache' = response_cache]_vars

\* C29 witness: a query has been answered from the cache with a response
\* that names the client's conversation although a clear-history has
\* removed that conversation, and a clear-index has emptied the snapshot
\* store after a task had completed.
C29_Witness ==
    /\ ret.op = "query"
    /\ ret.value.conversation_id = ClientConversation
    /\ ClientConversation \notin DOMAIN conversations
    /\ Len(response_cache) = 1
    /\ metadata_dir = <<>>
    /\ \E t \in Tasks : StatusOf(t) = COMPLETED

\* C30: the synthetic task id already-indexed is never a key of the task
\* registry, neither before nor after a start-indexing has returned it,
\* and a get-status for it returns None (not found).
C30_SyntheticHandleNotPollable ==
    /\ ALREADY_INDEXED \notin Tasks
    /\ (ret.op = "start_indexing" /\ ret.task_id = ALREADY_INDEXED)
         => StatusView(ret.task_id) = None
    /\ (ret.op = "get_indexing_status" /\ ret.task_id = ALREADY_INDEXED)
         => ret.value = None

\* C30 witness: a get-status for already-indexed has returned None while
\* the snapshots of both repository URLs are in the store, so that every
\* start-indexing returns that id.
C30_Witness ==
    /\ ret.op = "get_indexing_status"
    /\ ret.task_id = ALREADY_INDEXED
    /\ ret.value = None
    /\ \A u \in Urls : _check_existing_repository(u) # {}
====
